---------------------------- MODULE Spec2Model ----------------------------
(***************************************************************************)
(* vietnamese-tts-studio: the batch conversion worker of the GUI           *)
(* (TTSApp._process_selected / TTSApp._batch_process), the audiobook       *)
(* merger (AudiobookMerger) and the subtitle composer (SubtitleComposer).  *)
(*                                                                         *)
(* Strings are sequences of one-character strings.  Times are integers in  *)
(* milliseconds.  A duration in seconds that the code keeps as a float of  *)
(* the form n/15 is kept as its numerator n (see EstimatedDuration).       *)
(***************************************************************************)
EXTENDS Integers, Sequences, FiniteSets, TLC

\* ------------------------------------------------------------------ bounds
\* Largest number of rows selected for one batch.
MaxChapters == 3
\* Longest list handed to merge_audiobook when it is called on its own.
MaxFiles == 3
\* Largest number of batches started in a session.
MaxBatches == 2
\* Largest number of playbacks started on the audio player.
MaxPlaybacks == 2

\* --------------------------------------------------------------- constants
\* max_retries of _batch_process.
MaxRetries == 3
\* Characters per second of the duration estimate len(text) / 15.
CharsPerSecond == 15

\* ----------------------------------------------------------------- helpers
RECURSIVE Pow2(_)
Pow2(n) == IF n = 0 THEN 1 ELSE 2 * Pow2(n - 1)

\* ------------------------------------------------------- number formatting
DigitChars == <<"0", "1", "2", "3", "4", "5", "6", "7", "8", "9">>

\* str(n) for n >= 0
RECURSIVE Decimal(_)
Decimal(n) ==
    IF n < 10 THEN <<DigitChars[n + 1]>>
    ELSE Decimal(n \div 10) \o <<DigitChars[(n % 10) + 1]>>

RECURSIVE ZeroFill(_, _)
ZeroFill(s, width) == IF Len(s) >= width THEN s ELSE ZeroFill(<<"0">> \o s, width)

\* f"{n:0{width}d}": zero-padded to the width, never cut; the sign of a
\* negative number counts in the width.
Format(n, width) ==
    IF n < 0 THEN <<"-">> \o ZeroFill(Decimal(-n), width - 1)
    ELSE ZeroFill(Decimal(n), width)

\* ------------------------------------------------------------- file names
\* The characters of the model's strings for which str.isalnum() is true.
AlnumChars == {"0", "1", "2", "3", "a", "b", "P", "r", "t"}

\* c.isalnum() or c in (' ', '-', '_')
IsSafeChar(c) == c \in AlnumChars \/ c \in {" ", "-", "_"}

\* "".join(c for c in filename if <safe>)
RECURSIVE KeepSafe(_)
KeepSafe(s) ==
    IF s = <<>> THEN <<>>
    ELSE (IF IsSafeChar(Head(s)) THEN <<Head(s)>> ELSE <<>>) \o KeepSafe(Tail(s))

\* str.strip() for the only whitespace character of the model, the space.
RECURSIVE LStrip(_)
LStrip(s) == IF s # <<>> /\ Head(s) = " " THEN LStrip(Tail(s)) ELSE s

RECURSIVE RStrip(_)
RStrip(s) ==
    IF s # <<>> /\ s[Len(s)] = " " THEN RStrip(SubSeq(s, 1, Len(s) - 1)) ELSE s

Strip(s) == RStrip(LStrip(s))

\* f"{row['id']}_{row['title']}_Part{row['part']}", then the filter and strip.
RawFilename(row) ==
    row.id \o <<"_">> \o row.title \o <<"_", "P", "a", "r", "t">> \o row.part

SafeFilename(row) == Strip(KeepSafe(RawFilename(row)))

\* ------------------------------------------------------------------- rows
\* The loaded table (ExcelProcessor.get_rows_for_processing): id, title and
\* part are the stripped str() of the cells, text is kept by its length.
\* Row 1 carries a numeric id read as a float ("1.0"), row 3 a title with
\* punctuation.
Table ==
    << [id |-> <<"1", ".", "0">>, title |-> <<"a">>,      part |-> <<"1">>, textLen |-> 15],
       [id |-> <<"1", "0">>,      title |-> <<"a">>,      part |-> <<"1">>, textLen |-> 30],
       [id |-> <<"2">>,           title |-> <<"b", "?">>, part |-> <<"1">>, textLen |-> 20],
       [id |-> <<"3">>,           title |-> <<"b">>,      part |-> <<"2">>, textLen |-> 45] >>

TableRows == 1..Len(Table)

\* _get_selected_rows: the checked rows, in table order.
Selections ==
    { s \in UNION { [1..n -> TableRows] : n \in 1..MaxChapters } :
        \A i \in 1..(Len(s) - 1) : s[i] < s[i + 1] }

\* The file name each row of the table derives.
FilenameOf == [i \in TableRows |-> SafeFilename(Table[i])]

\* Every output file name a batch over the table can derive.
AllNames == { FilenameOf[i] : i \in TableRows }

\* ------------------------------------------------------------------ files
\* Decoded lengths (ms) of the audio a successful generation writes.
Durations == {1000, 2000}
\* Decoded lengths (ms) of what an interrupted stream may leave behind.
PartialDurations == {500}

Absent == [state |-> "absent", ms |-> 0]
\* An existing file AudioSegment.from_mp3 cannot decode (e.g. empty).
Corrupt == [state |-> "corrupt", ms |-> 0]
Audio(d) == [state |-> "ok", ms |-> d]

\* A subtitle file: the lines of its text.
NoSubtitle == [state |-> "absent", lines |-> <<>>]
Subtitle(lines) == [state |-> "ok", lines |-> lines]


\* What a generation call that fails may have done to the chapter's audio
\* file: nothing (it failed before open(output_audio_path, "wb")), or the
\* file was opened for writing and holds what was streamed before the error:
\* nothing decodable, or a decodable part.
FailedAudio(old) == {old, Corrupt} \cup { Audio(d) : d \in PartialDurations }

\* ------------------------------------------------------- AudiobookMerger
\* Boundary with end_ms that forgets the position the chapter starts at.
BoundaryEndIsDuration(file, pos, duration_ms) ==
    [id |-> file.id, title |-> file.title,
     start_ms |-> pos, end_ms |-> duration_ms, duration_ms |-> duration_ms]

\* chapter_info.append({...}) of the concatenation loop.
Boundary(file, pos, duration_ms) ==
    [id |-> file.id, title |-> file.title,
     start_ms |-> pos, end_ms |-> pos + duration_ms, duration_ms |-> duration_ms]

\* ConcatLoop without the exists() test: a missing file makes from_mp3 raise.
RECURSIVE ConcatLoopNoSkip(_, _, _, _)
ConcatLoopNoSkip(files, disk, chapter_info, current_position_ms) ==
    IF files = <<>>
    THEN [raised |-> FALSE, chapter_info |-> chapter_info,
          current_position_ms |-> current_position_ms]
    ELSE LET f == Head(files)
             c == disk[f.path]
         IN  IF c.state # "ok"
             THEN [raised |-> TRUE, chapter_info |-> chapter_info,
                   current_position_ms |-> current_position_ms]
             ELSE ConcatLoopNoSkip(Tail(files), disk,
                                   Append(chapter_info,
                                          Boundary(f, current_position_ms, c.ms)),
                                   current_position_ms + c.ms)

\* The loop over audio_files: a missing file is skipped, an undecodable one
\* makes AudioSegment.from_mp3 raise, any other is measured, recorded and
\* appended.
RECURSIVE ConcatLoop(_, _, _, _)
ConcatLoop(files, disk, chapter_info, current_position_ms) ==
    IF files = <<>>
    THEN [raised |-> FALSE, chapter_info |-> chapter_info,
          current_position_ms |-> current_position_ms]
    ELSE LET f == Head(files)
             c == disk[f.path]
         IN  IF c.state = "absent"
             THEN ConcatLoop(Tail(files), disk, chapter_info, current_position_ms)
             ELSE IF c.state = "corrupt"
             THEN [raised |-> TRUE, chapter_info |-> chapter_info,
                   current_position_ms |-> current_position_ms]
             ELSE ConcatLoop(Tail(files), disk,
                             Append(chapter_info, Boundary(f, current_position_ms, c.ms)),
                             current_position_ms + c.ms)

\* The element id without its zero padding.
ElementIdUnpadded(idx) == <<"c", "h", "a", "p">> \o Decimal(idx)

\* f"chap{idx:03d}"
ElementId(idx) == <<"c", "h", "a", "p">> \o Format(idx, 3)

NoTags == [chap |-> <<>>, ctoc |-> <<>>]

\* CHAP(element_id=..., start_time=chapter['start_ms'],
\*      end_time=chapter['end_ms'], sub_frames=[TIT2(text=[chapter['title']])])
ChapFrame(idx, chapter) ==
    [element_id |-> ElementId(idx),
     start_time |-> chapter.start_ms,
     end_time   |-> chapter.end_ms,
     title      |-> chapter.title]

\* CTOC(element_id=b'toc', child_element_ids=chapter_element_ids, ...)
CtocFrame(chapter_element_ids) ==
    [element_id |-> <<"t", "o", "c">>, child_element_ids |-> chapter_element_ids]

\* audio.tags.add(frame) on the frames of one kind: the tag is a dictionary
\* keyed by frame id and element id, so a frame with the element id of an
\* existing one takes its place and any other is added after the rest.
TagsAdd(frames, frame) ==
    IF \E k \in 1..Len(frames) : frames[k].element_id = frame.element_id
    THEN [k \in 1..Len(frames) |->
             IF frames[k].element_id = frame.element_id THEN frame ELSE frames[k]]
    ELSE Append(frames, frame)

\* The loop over enumerate(chapter_info, 1), from index idx on.
RECURSIVE AddChapFrames(_, _, _)
AddChapFrames(chap, chapter_info, idx) ==
    IF idx > Len(chapter_info) THEN chap
    ELSE AddChapFrames(TagsAdd(chap, ChapFrame(idx, chapter_info[idx])),
                       chapter_info, idx + 1)

\* chapter_element_ids after the loop.
ChapterElementIds(chapter_info) ==
    [i \in 1..Len(chapter_info) |-> ElementId(i)]

\* add_chapter_markers that returns normally, on a file carrying tags: one
\* CHAP frame added per boundary, then the CTOC frame listing their ids.
AddChapterMarkers(tags, info) ==
    [chap |-> AddChapFrames(tags.chap, info, 1),
     ctoc |-> TagsAdd(tags.ctoc, CtocFrame(ChapterElementIds(info)))]

NoMaster == [state |-> "absent", ms |-> 0, tags |-> NoTags]

\* The dictionary merge_audiobook returns.  The failure dictionary of the
\* code holds only 'success' and 'error'; the other fields are blank here.
MergeFailure(error) ==
    [success |-> FALSE, error |-> error, total_chapters |-> 0,
     total_duration_ms |-> 0, chapter_info |-> <<>>]

MergeSuccess(chapter_info, total_ms) ==
    [success |-> TRUE, error |-> "", total_chapters |-> Len(chapter_info),
     total_duration_ms |-> total_ms, chapter_info |-> chapter_info]

\* merge_audiobook: the result it returns and the output file it leaves.
\* exportOk and tagOk say whether combined_audio.export and
\* add_chapter_markers return or raise; every exception is caught by the
\* except clause of merge_audiobook, which returns the failure dictionary.
MergeAudiobook(audio_files, disk, old_master, exportOk, tagOk) ==
    LET r == ConcatLoop(audio_files, disk, <<>>, 0)
    IN  IF r.raised
        THEN [result |-> MergeFailure("decode"), master |-> old_master]
        ELSE IF Len(r.chapter_info) = 0
        THEN [result |-> MergeFailure("no valid audio"), master |-> old_master]
        ELSE IF ~exportOk
        THEN [result |-> MergeFailure("export"), master |-> old_master]
        ELSE IF ~tagOk
        THEN [result |-> MergeFailure("chapter markers"),
              master |-> [state |-> "ok", ms |-> r.current_position_ms,
                          tags |-> NoTags]]
        ELSE [result |-> MergeSuccess(r.chapter_info, r.current_position_ms),
              master |-> [state |-> "ok", ms |-> r.current_position_ms,
                          tags |-> AddChapterMarkers(NoTags, r.chapter_info)]]

\* ------------------------------------------------------ SubtitleComposer
\* len(row['text']) / 15 seconds, kept as the numerator of n/15.
EstimatedDuration(row) == row.textLen

\* add_chapter
AddChapter(chapters, subtitle_path, chapter_id, duration) ==
    Append(chapters, [subtitle_path |-> subtitle_path, chapter_id |-> chapter_id,
                      duration |-> duration, offset |-> 0])

\* calculate_offsets
RECURSIVE OffsetsFrom(_, _)
OffsetsFrom(chapters, cumulative_time) ==
    IF chapters = <<>> THEN <<>>
    ELSE <<[Head(chapters) EXCEPT !.offset = cumulative_time]>>
         \o OffsetsFrom(Tail(chapters), cumulative_time + Head(chapters).duration)

CalculateOffsets(chapters) == OffsetsFrom(chapters, 0)

\* The offsets n/15 s, among the sums of the model's durations as the
\* doubles accumulate them, for which the double offset * 1000 lies just
\* under the whole number of milliseconds (64.6 * 1000 is
\* 64599.99999999999).
TruncatedOffsets == {969, 1938, 2907, 2982, 3057, 3876}

\* int(chapter['offset'] * 1000): the product of two doubles, cut towards
\* zero.
OffsetMs(chapter) ==
    ((chapter.offset * 1000) \div CharsPerSecond)
    - (IF chapter.offset \in TruncatedOffsets THEN 1 ELSE 0)

\* \d of the regular expression, for the digits of the model's strings.
IsDigit(c) == \E d \in 1..Len(DigitChars) : DigitChars[d] = c

\* (\d+) at the head of s: the longest run of digits, possibly empty.
RECURSIVE TakeDigits(_)
TakeDigits(s) ==
    IF s # <<>> /\ IsDigit(Head(s)) THEN <<Head(s)>> \o TakeDigits(Tail(s))
    ELSE <<>>

\* int(group) of a run of digits.
RECURSIVE IntOf(_)
IntOf(digits) ==
    IF digits = <<>> THEN 0
    ELSE 10 * IntOf(SubSeq(digits, 1, Len(digits) - 1))
         + ((CHOOSE d \in 1..Len(DigitChars) : DigitChars[d] = digits[Len(digits)]) - 1)

Drop(s, n) == SubSeq(s, n + 1, Len(s))

NoMatch == [matched |-> FALSE, hours |-> 0, minutes |-> 0, seconds |-> 0,
            milliseconds |-> 0]

\* The groups of an expression made of digit runs with one separator after
\* each run but the last: seps holds the characters allowed at each
\* separator.  The int() of every run, or <<>> where the text does not match.
RECURSIVE MatchGroups(_, _, _)
MatchGroups(s, seps, groups) ==
    LET g == TakeDigits(s)
        r == Drop(s, Len(g))
    IN  IF g = <<>> THEN <<>>
        ELSE IF seps = <<>> THEN Append(groups, IntOf(g))
        ELSE IF r = <<>> \/ Head(r) \notin Head(seps) THEN <<>>
        ELSE MatchGroups(Tail(r), Tail(seps), Append(groups, IntOf(g)))

\* hours = int(match.group(1)) ... milliseconds = int(match.group(4))
MatchOf(groups) ==
    IF groups = <<>> THEN NoMatch
    ELSE [matched |-> TRUE, hours |-> groups[1], minutes |-> groups[2],
          seconds |-> groups[3], milliseconds |-> groups[4]]

\* re.match(r'(\d+):(\d+):(\d+)[,\.](\d+)', timestamp) and the int() of its
\* groups.  The match is anchored at the start only: what follows the last
\* digit run is ignored.
MatchTimestamp(timestamp) ==
    MatchOf(MatchGroups(timestamp, <<{":"}, {":"}, {",", "."}>>, <<>>))

\* The hour field cut to two digits.
NewHoursWrapped(total_ms) == (total_ms \div 3600000) % 100

\* new_hours = total_ms // 3600000 (floor division, as \div is)
NewHours(total_ms) == total_ms \div 3600000

\* total_ms of the matched fields, before the offset is added.
TotalMs(match) ==
    match.hours * 3600000 + match.minutes * 60000 + match.seconds * 1000
    + match.milliseconds

\* The fields taken back out of total_ms and formatted:
\* f"{new_hours:02d}:{new_minutes:02d}:{new_seconds:02d},{new_milliseconds:03d}"
FormatTimestamp(total_ms) ==
    LET rest_h == total_ms % 3600000
        rest_m == rest_h % 60000
    IN  Format(NewHours(total_ms), 2) \o <<":">> \o Format(rest_h \div 60000, 2)
        \o <<":">> \o Format(rest_m \div 1000, 2) \o <<",">>
        \o Format(rest_m % 1000, 3)

\* The body of _add_offset_to_timestamp once the expression has been tried:
\* a timestamp it does not match is returned as it is; nothing keeps
\* total_ms from being negative.
ShiftMatched(timestamp, match, offset) ==
    IF ~match.matched THEN timestamp
    ELSE FormatTimestamp(TotalMs(match) + offset)

\* _add_offset_to_timestamp
AddOffsetToTimestamp(ts, offset) == ShiftMatched(ts, MatchTimestamp(ts), offset)

\* ' --> ' between the two timestamps of a rebuilt timing line.
Arrow == <<" ", "-", "-", ">", " ">>

\* A subtitle file is kept as the sequence of its lines (its text is the
\* lines joined by '\n').  A line of blanks only is a blank line.
IsBlank(line) == Strip(line) = <<>>

\* block.strip(): blanks before the first line and after the last one go.
StripBlock(block) ==
    [i \in 1..Len(block) |->
        IF i = 1 /\ i = Len(block) THEN Strip(block[i])
        ELSE IF i = 1 THEN LStrip(block[i])
        ELSE IF i = Len(block) THEN RStrip(block[i])
        ELSE block[i]]

\* re.split(r'\n\s*\n', srt_content.strip()) without the empty pieces, each
\* piece stripped and split at '\n': the runs of non-blank lines.
RECURSIVE SplitFrom(_, _, _)
SplitFrom(lines, block, blocks) ==
    LET closed == IF block = <<>> THEN blocks
                  ELSE Append(blocks, StripBlock(block))
    IN  IF lines = <<>> THEN closed
        ELSE IF IsBlank(Head(lines)) THEN SplitFrom(Tail(lines), <<>>, closed)
        ELSE SplitFrom(Tail(lines), Append(block, Head(lines)), blocks)

SplitBlocks(lines) == SplitFrom(lines, <<>>, <<>>)

\* The place of the first '-->' of s at or after place i, 0 if there is none.
RECURSIVE FindArrow(_, _)
FindArrow(s, i) ==
    IF i + 2 > Len(s) THEN 0
    ELSE IF SubSeq(s, i, i + 2) = <<"-", "-", ">">> THEN i
    ELSE FindArrow(s, i + 1)

\* '-->' in timing_line
HasArrow(timing_line) == FindArrow(timing_line, 1) # 0

\* timing_line.split('-->')[0] and [1]
ArrowParts(timing_line) ==
    LET a == FindArrow(timing_line, 1)
        rest == Drop(timing_line, a + 2)
        b == FindArrow(rest, 1)
    IN  <<SubSeq(timing_line, 1, a - 1),
          IF b = 0 THEN rest ELSE SubSeq(rest, 1, b - 1)>>

\* The first line of a rebuilt block, were the block's own number kept.
IndexLineKept(current_index, lines) == lines[1]

\* f"{current_index}" of the rebuilt block.
IndexLine(current_index, lines) == Decimal(current_index)

\* new_block: the new number, the shifted timing line, the text lines.
NewBlock(lines, offset_ms, current_index) ==
    LET parts == ArrowParts(lines[2])
        new_start == AddOffsetToTimestamp(Strip(parts[1]), offset_ms)
        new_end == AddOffsetToTimestamp(Strip(parts[2]), offset_ms)
    IN  <<IndexLine(current_index, lines), new_start \o Arrow \o new_end>>
        \o SubSeq(lines, 3, Len(lines))

\* The loop of _adjust_subtitle_timing over the blocks: a block of one line
\* or without '-->' in its second line is passed over, any other is rebuilt
\* and numbered.
RECURSIVE AdjustBlocks(_, _, _)
AdjustBlocks(blocks, offset_ms, current_index) ==
    IF blocks = <<>> THEN <<>>
    ELSE LET lines == Head(blocks)
         IN  IF Len(lines) >= 2 /\ HasArrow(lines[2])
             THEN <<NewBlock(lines, offset_ms, current_index)>>
                  \o AdjustBlocks(Tail(blocks), offset_ms, current_index + 1)
             ELSE AdjustBlocks(Tail(blocks), offset_ms, current_index)

\* _adjust_subtitle_timing
AdjustSubtitleTiming(srt_content, offset_ms, start_index) ==
    AdjustBlocks(SplitBlocks(srt_content), offset_ms, start_index)

\* The composition without the chapters that follow a missing file.
RECURSIVE ComposeLoopStopsAtMissing(_, _, _, _)
ComposeLoopStopsAtMissing(chs, subs, master_content, subtitle_index) ==
    IF chs = <<>> THEN master_content
    ELSE LET ch == Head(chs)
             f == subs[ch.subtitle_path]
         IN  IF f.state = "absent" THEN master_content
             ELSE LET adjusted_blocks ==
                          AdjustSubtitleTiming(f.lines, OffsetMs(ch), subtitle_index)
                  IN  ComposeLoopStopsAtMissing(Tail(chs), subs,
                                                master_content \o adjusted_blocks,
                                                subtitle_index + Len(adjusted_blocks))

\* The loop of compose_master_subtitle over the queue.
RECURSIVE ComposeLoop(_, _, _, _)
ComposeLoop(chapters, subs, master_content, subtitle_index) ==
    IF chapters = <<>> THEN master_content
    ELSE LET ch == Head(chapters)
             f == subs[ch.subtitle_path]
         IN  IF f.state = "absent"
             THEN ComposeLoop(Tail(chapters), subs, master_content, subtitle_index)
             ELSE LET adjusted_blocks ==
                          AdjustSubtitleTiming(f.lines, OffsetMs(ch), subtitle_index)
                  IN  ComposeLoop(Tail(chapters), subs,
                                  master_content \o adjusted_blocks,
                                  subtitle_index + Len(adjusted_blocks))

\* '\n\n'.join(master_content): one empty line between two blocks.
RECURSIVE JoinBlocks(_)
JoinBlocks(blocks) ==
    IF blocks = <<>> THEN <<>>
    ELSE IF Len(blocks) = 1 THEN Head(blocks)
    ELSE Head(blocks) \o << <<>> >> \o JoinBlocks(Tail(blocks))

\* compose_master_subtitle: the value it returns, the queue with its offsets
\* and the master file.  ioOk says whether reading the chapter files and
\* writing the master file succeed; an exception is caught and False
\* returned after calculate_offsets has run.  Nothing else makes it return
\* False: a master without any block is written and True returned.
ComposeMasterSubtitle(chapters, subs, old_master, ioOk) ==
    LET chs == CalculateOffsets(chapters)
    IN  IF ioOk
        THEN [ok |-> TRUE, chapters |-> chs,
              master |-> Subtitle(JoinBlocks(ComposeLoop(chs, subs, <<>>, 1)))]
        ELSE [ok |-> FALSE, chapters |-> chs, master |-> old_master]

\* A time written as H:M:S,mmm or H:M:S.mmm, zero-padded or not.
WriteStamp(f, sep, padded) ==
    LET w(n, width) == IF padded THEN ZeroFill(Decimal(n), width) ELSE Decimal(n)
    IN  w(f.h, 2) \o <<":">> \o w(f.m, 2) \o <<":">> \o w(f.s, 2) \o <<sep>>
        \o w(f.ms, 3)

\* The time of ms milliseconds (below one minute) as fields.
Time(ms) == [h |-> 0, m |-> 0, s |-> ms \div 1000, ms |-> ms % 1000]

\* submaker.get_srt() of a generation of d milliseconds: one cue over the
\* whole audio; its text stands for the row's text and is the row's id.
EngineSrt(d, row) ==
    << <<"1">>,
       WriteStamp(Time(0), ",", TRUE) \o Arrow \o WriteStamp(Time(d), ",", TRUE),
       row.id >>

\* ------------------------------------------------------------------ state
VARIABLES
    is_processing,  \* TTSApp.is_processing
    pc,             \* where the worker thread (or a direct call) stands
    rows,           \* the rows handed to _batch_process, as indices of Table
    create_master,  \* create_master_var.get()
    idx,            \* enumerate(rows, 1) of the chapter loop
    retry,          \* the retry loop's variable
    processed,      \* count of chapters generated
    failed,         \* count of chapters given up
    progress,       \* what the progress label shows: <<idx, total>>
    stats,          \* what _update_stats last displayed
    audio_fs,       \* the audio directory: file name -> content
    sub_fs,         \* the subtitle directory: file name -> content
    chapters,       \* SubtitleComposer.chapters
    master_srt,     \* subtitles/master_subtitle.srt
    compose_ok,     \* what compose_master_subtitle returned ("none": not called)
    compose_io,     \* whether its file reads and its write could complete
    audio_files,    \* the list handed to merge_audiobook
    merge_result,   \* what merge_audiobook returned
    merge_called,   \* whether merge_audiobook was called
    merge_io,       \* whether export / add_chapter_markers could complete
    master_mp3,     \* master_audiobook.mp3
    summary,        \* the final summary
    attempts,       \* history: the calls made per chapter, "ok" or "err" each
    outcome,        \* history: "pending", "succeeded" or "failed" per chapter
    sleeps,         \* history: the backoff waits (s) of each chapter, in order
    order,          \* history: the chapter of every generation call, in order
    last,           \* the latest generation call: chapter, retry, kind, wait
    marker_info,    \* chapter_info of the latest add_chapter_markers call
    timestamp,      \* the timestamp handed to _add_offset_to_timestamp
    offset_ms,      \* the offset handed with it
    shifted,        \* what _add_offset_to_timestamp(timestamp, offset_ms) returned
    restored,       \* what _add_offset_to_timestamp(shifted, -offset_ms) returned
    preview_pc,     \* where the preview thread of _generate_and_play_preview stands
    warned,         \* whether a start request was refused with the 'busy' warning
    batches,        \* count of batches started since the application was opened
    state,          \* AudioPlayer.state
    music,          \* pygame.mixer.music: "idle", "playing" or "paused"
    loaded,         \* whether pygame.mixer.music holds a loaded file
    should_monitor, \* AudioPlayer.should_monitor
    monitor_thread, \* AudioPlayer.monitor_thread: the thread last started, 0 for None
    caller,         \* where the thread calling load, play, pause or stop stands
    in_load,        \* whether the stop() running is the one load() calls
    result,         \* what the last call of the player returned
    playbacks,      \* count of pygame.mixer.music.play() calls that started a playback
    monitor,        \* where each monitor thread stands in _monitor_playback
    heard,          \* per monitor thread, the playback it saw get_busy() false for
    ended,          \* how each playback ended, "running" while it has not
    callbacks       \* per playback, the on_finish_callback calls made for it

vars == <<is_processing, pc, rows, create_master, idx, retry, processed, failed,
          progress, stats, audio_fs, sub_fs, chapters, master_srt, compose_ok,
          compose_io, audio_files, merge_result, merge_called, merge_io, master_mp3,
          summary, attempts, outcome, sleeps, order, last,
          marker_info, timestamp, offset_ms, shifted, restored,
          preview_pc, warned, batches,
          state, music, loaded, should_monitor, monitor_thread, caller, in_load,
          result, playbacks, monitor, heard, ended, callbacks>>

\* The arguments and results of the calls made on their own.
callVars == <<marker_info, timestamp, offset_ms, shifted, restored>>

\* What the user interface thread and the preview thread keep.
appVars == <<preview_pc, warned, batches>>

\* The audio player, its monitor threads and the music it plays.
playerVars == <<state, music, loaded, should_monitor, monitor_thread, caller,
                in_load, result, playbacks, monitor, heard, ended, callbacks>>

batchVars == <<is_processing, rows, create_master, idx, retry, processed, failed,
               progress, stats, sub_fs, chapters, master_srt, compose_ok,
               compose_io, summary, attempts, outcome, sleeps, order, last>>

NoResult == MergeFailure("not called")
NoIo == [export |-> TRUE, tags |-> TRUE]
NoCall == [chapter |-> 0, retry |-> 0, kind |-> "none", wait |-> 0]
NoSummary == [shown |-> FALSE, total |-> 0, processed |-> 0, failed |-> 0,
              master_announced |-> FALSE]
\* The playbacks of a session; a monitor thread is started for each.
Playbacks == 1..MaxPlaybacks

\* AudioPlayer.__init__: stopped, nothing loaded, no monitor thread.
PlayerInit ==
    /\ state = "stopped"
    /\ music = "idle"
    /\ loaded = FALSE
    /\ should_monitor = FALSE
    /\ monitor_thread = 0
    /\ caller = "idle"
    /\ in_load = FALSE
    /\ result = "none"
    /\ playbacks = 0
    /\ monitor = [t \in Playbacks |-> "none"]
    /\ heard = [t \in Playbacks |-> 0]
    /\ ended = [p \in Playbacks |-> "none"]
    /\ callbacks = [p \in Playbacks |-> 0]

\* No call of add_chapter_markers or _add_offset_to_timestamp on its own, no
\* preview, no start request yet, the audio player as constructed.
NoCalls ==
    /\ PlayerInit
    /\ preview_pc = "idle"
    /\ warned = FALSE
    /\ batches = 0
    /\ marker_info = <<>>
    /\ timestamp = <<>>
    /\ offset_ms = 0
    /\ shifted = <<>>
    /\ restored = <<>>

\* TTSApp.__init__: nothing is processing, the output folder is empty.
Init ==
    /\ is_processing = FALSE
    /\ pc = "idle"
    /\ rows = <<>>
    /\ create_master = TRUE
    /\ idx = 0
    /\ retry = 0
    /\ processed = 0
    /\ failed = 0
    /\ progress = <<0, 0>>
    /\ stats = <<0, 0, 0>>
    /\ audio_fs = [n \in AllNames |-> Absent]
    /\ sub_fs = [n \in AllNames |-> NoSubtitle]
    /\ chapters = <<>>
    /\ master_srt = NoSubtitle
    /\ compose_ok = "none"
    /\ compose_io = TRUE
    /\ audio_files = <<>>
    /\ merge_result = NoResult
    /\ merge_called = FALSE
    /\ merge_io = NoIo
    /\ master_mp3 = NoMaster
    /\ summary = NoSummary
    /\ attempts = <<>>
    /\ outcome = <<>>
    /\ sleeps = <<>>
    /\ order = <<>>
    /\ last = NoCall
    /\ NoCalls

\* ------------------------------------------------------- the batch worker
total == Len(rows)
Row == Table[rows[idx]]
filename == FilenameOf[rows[idx]]

\* _process_selected: refused while a batch is processing; otherwise the
\* selected rows are handed to a new worker thread.
ProcessSelected ==
    /\ pc = "idle"
    /\ UNCHANGED <<callVars, appVars, playerVars, compose_io>>
    /\ ~is_processing
    /\ \E sel \in Selections, cm \in BOOLEAN :
          /\ rows' = sel
          /\ create_master' = cm
    /\ is_processing' = TRUE
    /\ pc' = "begin"
    /\ UNCHANGED <<idx, retry, processed, failed, progress, stats, audio_fs,
                   sub_fs, chapters, master_srt, compose_ok, audio_files,
                   merge_result, merge_called, merge_io, master_mp3, summary,
                   attempts, outcome, sleeps, order, last>>

\* The start of a batch without the call of subtitle_composer.clear(): the
\* queue of an earlier batch is kept.
BatchBeginKeepsQueue ==
    /\ pc = "begin"
    /\ UNCHANGED <<callVars, appVars, playerVars, compose_io>>
    /\ processed' = 0
    /\ failed' = 0
    /\ chapters' = chapters
    /\ idx' = 1
    /\ attempts' = [i \in 1..total |-> <<>>]
    /\ outcome' = [i \in 1..total |-> "pending"]
    /\ sleeps' = [i \in 1..total |-> <<>>]
    /\ order' = <<>>
    /\ pc' = "chapter"
    /\ UNCHANGED <<is_processing, rows, create_master, retry, progress, stats,
                   audio_fs, sub_fs, master_srt, compose_ok, audio_files,
                   merge_result, merge_called, merge_io, master_mp3, summary, last>>

\* _batch_process up to the chapter loop: counters zeroed, composer cleared.
BatchBegin ==
    /\ pc = "begin"
    /\ UNCHANGED <<callVars, appVars, playerVars, compose_io>>
    /\ processed' = 0
    /\ failed' = 0
    /\ chapters' = <<>>
    /\ idx' = 1
    /\ attempts' = [i \in 1..total |-> <<>>]
    /\ outcome' = [i \in 1..total |-> "pending"]
    /\ sleeps' = [i \in 1..total |-> <<>>]
    /\ order' = <<>>
    /\ pc' = "chapter"
    /\ UNCHANGED <<is_processing, rows, create_master, retry, progress, stats,
                   audio_fs, sub_fs, master_srt, compose_ok, audio_files,
                   merge_result, merge_called, merge_io, master_mp3, summary, last>>

\* The head of the chapter loop: progress shown, file name derived, the
\* retry loop entered.
ChapterStart ==
    /\ pc = "chapter"
    /\ UNCHANGED <<callVars, appVars, playerVars, compose_io>>
    /\ progress' = <<idx, total>>
    /\ retry' = 0
    /\ pc' = "attempt"
    /\ UNCHANGED <<is_processing, rows, create_master, idx, processed, failed,
                   stats, audio_fs, sub_fs, chapters, master_srt, compose_ok,
                   audio_files, merge_result, merge_called, merge_io, master_mp3, summary,
                   attempts, outcome, sleeps, order, last>>

\* A linear backoff in place of the exponential one.
WaitTimeLinear(r) == 2 * r

\* wait_time = 2 ** retry
WaitTime(r) == Pow2(r)

\* The test of the last attempt off by one: it waits again and the chapter
\* is never given up.
RetryLeftOffByOne(r) == r < MaxRetries

\* if retry < max_retries - 1: wait and retry, else give the chapter up.
RetryLeft(r) == r < MaxRetries - 1

\* A retry loop one iteration short.
LoopContinuesShort(r) == r + 1 < MaxRetries - 1

\* for retry in range(max_retries): whether iteration r is followed by another.
LoopContinues(r) == r + 1 < MaxRetries

\* History of one generation call on the current chapter.
Called(kind, wait) ==
    /\ attempts' = [attempts EXCEPT ![idx] =
                        Append(@, IF kind = "ok" THEN "ok" ELSE "err")]
    /\ order' = Append(order, idx)
    /\ last' = [chapter |-> idx, retry |-> retry, kind |-> kind, wait |-> wait]

\* generate_audio_sync returned success: counted, queued in the composer,
\* the retry loop left.
AttemptSuccess ==
    /\ pc = "attempt"
    /\ UNCHANGED <<callVars, appVars, playerVars, compose_io>>
    /\ \E d \in Durations :
          /\ audio_fs' = [audio_fs EXCEPT ![filename] = Audio(d)]
          /\ sub_fs' = [sub_fs EXCEPT ![filename] = Subtitle(EngineSrt(d, Row))]
    /\ processed' = processed + 1
    /\ chapters' = AddChapter(chapters, filename, Row.id, EstimatedDuration(Row))
    /\ outcome' = [outcome EXCEPT ![idx] = "succeeded"]
    /\ Called("ok", 0)
    /\ pc' = "stats"
    /\ UNCHANGED <<is_processing, rows, create_master, idx, retry, failed,
                   progress, stats, master_srt, compose_ok, audio_files,
                   merge_result, merge_called, merge_io, master_mp3, summary, sleeps>>

\* generate_audio_sync returned a failure result (the else branch).
AttemptFailure ==
    /\ pc = "attempt"
    /\ UNCHANGED <<callVars, appVars, playerVars, compose_io>>
    /\ \E a \in FailedAudio(audio_fs[filename]) :
          audio_fs' = [audio_fs EXCEPT ![filename] = a]
    /\ IF RetryLeft(retry)
       THEN /\ sleeps' = [sleeps EXCEPT ![idx] = Append(@, WaitTime(retry))]
            /\ Called("fail", WaitTime(retry))
            /\ UNCHANGED <<failed, outcome>>
       ELSE /\ failed' = failed + 1
            /\ outcome' = [outcome EXCEPT ![idx] = "failed"]
            /\ Called("fail", 0)
            /\ UNCHANGED sleeps
    /\ IF LoopContinues(retry)
       THEN retry' = retry + 1 /\ pc' = "attempt"
       ELSE retry' = retry /\ pc' = "stats"
    /\ UNCHANGED <<is_processing, rows, create_master, idx, processed, progress,
                   stats, sub_fs, chapters, master_srt, compose_ok, audio_files,
                   merge_result, merge_called, merge_io, master_mp3, summary>>

\* _batch_process without its except clause: the exception leaves the
\* chapter loop and ends the worker.
AttemptRaiseAborts ==
    /\ pc = "attempt"
    /\ UNCHANGED <<callVars, appVars, playerVars, compose_io>>
    /\ \E a \in FailedAudio(audio_fs[filename]) :
          audio_fs' = [audio_fs EXCEPT ![filename] = a]
    /\ Called("raise", 0)
    /\ pc' = "finally"
    /\ UNCHANGED <<is_processing, rows, create_master, idx, retry, processed,
                   failed, progress, stats, sub_fs, chapters, master_srt,
                   compose_ok, audio_files, merge_result, merge_called, merge_io,
                   master_mp3, summary, outcome, sleeps>>

\* generate_audio_sync raised (the except branch).
AttemptRaise ==
    /\ pc = "attempt"
    /\ UNCHANGED <<callVars, appVars, playerVars, compose_io>>
    /\ \E a \in FailedAudio(audio_fs[filename]) :
          audio_fs' = [audio_fs EXCEPT ![filename] = a]
    /\ IF RetryLeft(retry)
       THEN /\ sleeps' = [sleeps EXCEPT ![idx] = Append(@, WaitTime(retry))]
            /\ Called("raise", WaitTime(retry))
            /\ UNCHANGED <<failed, outcome>>
       ELSE /\ failed' = failed + 1
            /\ outcome' = [outcome EXCEPT ![idx] = "failed"]
            /\ Called("raise", 0)
            /\ UNCHANGED sleeps
    /\ IF LoopContinues(retry)
       THEN retry' = retry + 1 /\ pc' = "attempt"
       ELSE retry' = retry /\ pc' = "stats"
    /\ UNCHANGED <<is_processing, rows, create_master, idx, processed, progress,
                   stats, sub_fs, chapters, master_srt, compose_ok, audio_files,
                   merge_result, merge_called, merge_io, master_mp3, summary>>

\* A chapter loop left for the merge stages as soon as a chapter has been
\* generated.
ChapterEndAtFirstSuccess ==
    /\ pc = "stats"
    /\ UNCHANGED <<callVars, appVars, playerVars, compose_io>>
    /\ stats' = <<total, processed, failed>>
    /\ IF idx < total /\ processed = 0
       THEN idx' = idx + 1 /\ pc' = "chapter"
       ELSE idx' = idx /\ pc' = "compose"
    /\ UNCHANGED <<is_processing, rows, create_master, retry, processed, failed,
                   progress, audio_fs, sub_fs, chapters, master_srt, compose_ok,
                   audio_files, merge_result, merge_called, merge_io, master_mp3, summary,
                   attempts, outcome, sleeps, order, last>>

\* After the retry loop: statistics shown, then the next chapter (after the
\* fixed delay) or the end of the chapter loop.
ChapterEnd ==
    /\ pc = "stats"
    /\ UNCHANGED <<callVars, appVars, playerVars, compose_io>>
    /\ stats' = <<total, processed, failed>>
    /\ IF idx < total
       THEN idx' = idx + 1 /\ pc' = "chapter"
       ELSE idx' = idx /\ pc' = "compose"
    /\ UNCHANGED <<is_processing, rows, create_master, retry, processed, failed,
                   progress, audio_fs, sub_fs, chapters, master_srt, compose_ok,
                   audio_files, merge_result, merge_called, merge_io, master_mp3, summary,
                   attempts, outcome, sleeps, order, last>>


\* The merge stages entered whatever the count of generated chapters.
StagesDueAlways(n) == n >= 0

\* if processed > 0: the test at the head of both merge stages.
StagesDue(n) == n > 0

\* "Tạo phụ đề tổng": the master subtitle is composed when a chapter was
\* generated; the returned value is not looked at.
ComposeStage ==
    /\ pc = "compose"
    /\ UNCHANGED <<callVars, appVars, playerVars>>
    /\ IF StagesDue(processed)
       THEN \E ioOk \in BOOLEAN :
               LET r == ComposeMasterSubtitle(chapters, sub_fs, master_srt, ioOk)
               IN  /\ chapters' = r.chapters
                   /\ master_srt' = r.master
                   /\ compose_ok' = IF r.ok THEN "true" ELSE "false"
                   /\ compose_io' = ioOk
       ELSE UNCHANGED <<chapters, master_srt, compose_ok, compose_io>>
    /\ pc' = "merge"
    /\ UNCHANGED <<is_processing, rows, create_master, idx, retry, processed,
                   failed, progress, stats, audio_fs, sub_fs, audio_files,
                   merge_result, merge_called, merge_io, master_mp3, summary,
                   attempts, outcome, sleeps, order, last>>

\* One entry of the list built for merge_audiobook.
AudioFile(i) ==
    [path |-> FilenameOf[i], title |-> Table[i].title, id |-> Table[i].id]

\* The rows whose audio file exists, in row order.
RECURSIVE ExistingAudioFiles(_, _)
ExistingAudioFiles(rs, disk) ==
    IF rs = <<>> THEN <<>>
    ELSE (IF disk[FilenameOf[Head(rs)]].state # "absent"
          THEN <<AudioFile(Head(rs))>> ELSE <<>>)
         \o ExistingAudioFiles(Tail(rs), disk)

\* "Tạo master audiobook": when a chapter was generated and the master
\* option is set, every row whose audio file exists is listed and the list,
\* if not empty, merged.
MergeStage ==
    /\ pc = "merge"
    /\ UNCHANGED <<callVars, appVars, playerVars, compose_io>>
    /\ IF StagesDue(processed) /\ create_master
       THEN LET files == ExistingAudioFiles(rows, audio_fs)
            IN  /\ audio_files' = files
                /\ IF files # <<>>
                   THEN \E exportOk \in BOOLEAN, tagOk \in BOOLEAN :
                           LET m == MergeAudiobook(files, audio_fs, master_mp3,
                                                   exportOk, tagOk)
                           IN  /\ merge_result' = m.result
                               /\ master_mp3' = m.master
                               /\ merge_called' = TRUE
                               /\ merge_io' = [export |-> exportOk, tags |-> tagOk]
                   ELSE UNCHANGED <<merge_result, merge_called, merge_io, master_mp3>>
       ELSE UNCHANGED <<audio_files, merge_result, merge_called, merge_io, master_mp3>>
    /\ pc' = "summary"
    /\ UNCHANGED <<is_processing, rows, create_master, idx, retry, processed,
                   failed, progress, stats, audio_fs, sub_fs, chapters,
                   master_srt, compose_ok, summary, attempts, outcome, sleeps,
                   order, last>>

\* A summary that reports nothing generated once a merge stage has failed.
SummaryDropsResults ==
    /\ pc = "summary"
    /\ UNCHANGED <<callVars, appVars, playerVars, compose_io>>
    /\ summary' = [shown |-> TRUE, total |-> total,
                   processed |-> IF compose_ok = "false"
                                    \/ (merge_called /\ ~merge_result.success)
                                 THEN 0 ELSE processed,
                   failed |-> failed,
                   master_announced |-> (create_master /\ processed > 0)]
    /\ pc' = "finally"
    /\ UNCHANGED <<is_processing, rows, create_master, idx, retry, processed,
                   failed, progress, stats, audio_fs, sub_fs, chapters,
                   master_srt, compose_ok, audio_files, merge_result,
                   merge_called, merge_io, master_mp3, attempts, outcome, sleeps, order,
                   last>>

\* "Tổng kết": the counts are logged and shown.
Summary ==
    /\ pc = "summary"
    /\ UNCHANGED <<callVars, appVars, playerVars, compose_io>>
    /\ summary' = [shown |-> TRUE, total |-> total, processed |-> processed,
                   failed |-> failed,
                   master_announced |-> (create_master /\ processed > 0)]
    /\ pc' = "finally"
    /\ UNCHANGED <<is_processing, rows, create_master, idx, retry, processed,
                   failed, progress, stats, audio_fs, sub_fs, chapters,
                   master_srt, compose_ok, audio_files, merge_result,
                   merge_called, merge_io, master_mp3, attempts, outcome, sleeps, order,
                   last>>

\* A worker thread without the finally clause: the flag is reset only when
\* _batch_process returns.
ThreadEndNoFinally ==
    /\ pc = "finally"
    /\ UNCHANGED <<callVars, appVars, playerVars, compose_io>>
    /\ is_processing' = ~summary.shown
    /\ pc' = "done"
    /\ UNCHANGED <<rows, create_master, idx, retry, processed, failed, progress,
                   stats, audio_fs, sub_fs, chapters, master_srt, compose_ok,
                   audio_files, merge_result, merge_called, merge_io, master_mp3, summary,
                   attempts, outcome, sleeps, order, last>>

\* The finally clause of the worker thread.
ThreadEnd ==
    /\ pc = "finally"
    /\ UNCHANGED <<callVars, appVars, playerVars, compose_io>>
    /\ is_processing' = FALSE
    /\ pc' = "done"
    /\ UNCHANGED <<rows, create_master, idx, retry, processed, failed, progress,
                   stats, audio_fs, sub_fs, chapters, master_srt, compose_ok,
                   audio_files, merge_result, merge_called, merge_io, master_mp3, summary,
                   attempts, outcome, sleeps, order, last>>

Next ==
    \/ ProcessSelected
    \/ BatchBegin
    \/ ChapterStart
    \/ AttemptSuccess
    \/ AttemptFailure
    \/ AttemptRaise
    \/ ChapterEnd
    \/ ComposeStage
    \/ MergeStage
    \/ Summary
    \/ ThreadEnd

Spec == Init /\ [][Next]_vars

\* ------------------------------------------- the application in a session
\* The user interface thread's events interleaved with the worker thread and
\* the preview thread, over several batches.

\* What belongs to the batch worker and its files.
workVars == <<is_processing, rows, create_master, idx, retry, processed, failed,
              progress, stats, audio_fs, sub_fs, chapters, master_srt,
              compose_ok, compose_io, audio_files, merge_result, merge_called,
              merge_io, master_mp3, summary, attempts, outcome, sleeps, order,
              last>>

\* _process_selected pressed while a batch is processing: refused with a
\* warning, nothing else changes.
StartRefused ==
    /\ pc # "exited"
    /\ is_processing
    /\ warned' = TRUE
    /\ UNCHANGED <<pc, workVars, callVars, preview_pc, batches, playerVars>>

\* The rows of the table that are checked at some time of a session.
SessionRows == {1, 3}

\* The rows checked when a batch of a session is started.
SessionSelections ==
    { s \in Selections : \A i \in 1..Len(s) : s[i] \in SessionRows }

\* _process_selected pressed while no batch is processing, be it the first
\* batch of the session or a later one: the selected rows are handed to a
\* new worker thread, whose locals start afresh.
StartBatch ==
    /\ pc \in {"idle", "done"}
    /\ ~is_processing
    /\ batches < MaxBatches
    /\ UNCHANGED <<callVars, preview_pc, warned, playerVars>>
    /\ \E sel \in SessionSelections, cm \in BOOLEAN :
          /\ rows' = sel
          /\ create_master' = cm
    /\ is_processing' = TRUE
    /\ pc' = "begin"
    /\ batches' = batches + 1
    /\ compose_ok' = "none"
    /\ compose_io' = TRUE
    /\ audio_files' = <<>>
    /\ merge_result' = NoResult
    /\ merge_called' = FALSE
    /\ merge_io' = NoIo
    /\ summary' = NoSummary
    /\ UNCHANGED <<idx, retry, processed, failed, progress, stats, audio_fs,
                   sub_fs, chapters, master_srt, master_mp3, attempts, outcome,
                   sleeps, order, last>>

\* _batch_process ended by an exception before the chapter loop: the output
\* directories cannot be created.
BatchRaises ==
    /\ pc = "begin"
    /\ UNCHANGED <<callVars, appVars, playerVars, compose_io>>
    /\ processed' = 0
    /\ failed' = 0
    /\ pc' = "finally"
    /\ UNCHANGED <<is_processing, rows, create_master, idx, retry, progress,
                   stats, audio_fs, sub_fs, chapters, master_srt, compose_ok,
                   audio_files, merge_result, merge_called, merge_io, master_mp3,
                   summary, attempts, outcome, sleeps, order, last>>

\* _generate_and_play_preview: the button is disabled and the preview thread
\* started, whatever the batch worker is doing.
PreviewStart ==
    /\ pc # "exited"
    /\ preview_pc = "idle"
    /\ preview_pc' = "sleep"
    /\ UNCHANGED <<pc, workVars, callVars, warned, batches, playerVars>>

\* The preview thread, after its short sleep, calls generate_audio_sync.
PreviewCall ==
    /\ preview_pc = "sleep"
    /\ preview_pc' = "generating"
    /\ UNCHANGED <<pc, workVars, callVars, warned, batches, playerVars>>

\* The preview's generation call returns (with success or not); the button
\* is enabled again and the thread ends.
PreviewReturn ==
    /\ preview_pc = "generating"
    /\ preview_pc' = "idle"
    /\ UNCHANGED <<pc, workVars, callVars, warned, batches, playerVars>>

\* _on_closing: the window is destroyed and the main loop ends; the worker
\* and the preview thread are daemon threads and end with the process,
\* wherever they stand.  A generation call cut short leaves of the chapter's
\* audio file what a failing call may leave.
OnClosing ==
    /\ pc # "exited"
    /\ pc' = "exited"
    /\ preview_pc' = "exited"
    /\ IF pc = "attempt"
       THEN \E a \in FailedAudio(audio_fs[filename]) :
               audio_fs' = [audio_fs EXCEPT ![filename] = a]
       ELSE UNCHANGED audio_fs
    /\ UNCHANGED <<is_processing, rows, create_master, idx, retry, processed,
                   failed, progress, stats, sub_fs, chapters, master_srt,
                   compose_ok, compose_io, audio_files, merge_result,
                   merge_called, merge_io, master_mp3, summary, attempts,
                   outcome, sleeps, order, last>>
    /\ UNCHANGED <<callVars, warned, batches, playerVars>>

\* One batch, started right after the application was opened, with the
\* user interface's other events and the preview thread.
NextApp ==
    \/ ProcessSelected
    \/ StartRefused
    \/ BatchBegin
    \/ ChapterStart
    \/ AttemptSuccess
    \/ AttemptFailure
    \/ AttemptRaise
    \/ ChapterEnd
    \/ ComposeStage
    \/ MergeStage
    \/ Summary
    \/ ThreadEnd
    \/ PreviewStart
    \/ PreviewCall
    \/ PreviewReturn
    \/ OnClosing

SpecApp == Init /\ [][NextApp]_vars

\* Batch after batch, each of a few rows.
NextSession ==
    \/ StartBatch
    \/ BatchRaises
    \/ BatchBegin
    \/ ChapterStart
    \/ AttemptSuccess
    \/ AttemptFailure
    \/ AttemptRaise
    \/ ChapterEnd
    \/ ComposeStage
    \/ MergeStage
    \/ Summary
    \/ ThreadEnd

SpecSession == Init /\ [][NextSession]_vars

\* A step of the worker thread.
WorkerStep ==
    \/ BatchRaises
    \/ BatchBegin
    \/ ChapterStart
    \/ AttemptSuccess
    \/ AttemptFailure
    \/ AttemptRaise
    \/ ChapterEnd
    \/ ComposeStage
    \/ MergeStage
    \/ Summary
    \/ ThreadEnd

\* The session with a worker thread that is scheduled and whose calls return.
SpecSessionFair == SpecSession /\ WF_vars(WorkerStep)

\* ------------------------------------------------------------ AudioPlayer
\* Everything but the audio player.
otherVars == <<pc, workVars, callVars, appVars>>

\* pygame.mixer.music.get_busy(): true while music plays, false when none
\* does; for paused music the answer depends on the pygame release (true
\* before 2.0.1, false since).
GetBusy(paused_busy) == music = "playing" \/ (music = "paused" /\ paused_busy)

\* play() with the state PAUSED: the music is resumed.
PlayResume ==
    /\ caller = "idle"
    /\ state = "paused"
    /\ music' = IF music = "paused" THEN "playing" ELSE music
    /\ caller' = "resume_state"
    /\ UNCHANGED <<state, loaded, should_monitor, monitor_thread, in_load, result,
                   playbacks, monitor, heard, ended, callbacks>>
    /\ UNCHANGED otherVars

\* play(), resuming: _update_state(PLAYING), return True.
ResumeState ==
    /\ caller = "resume_state"
    /\ state' = "playing"
    /\ result' = "true"
    /\ caller' = "idle"
    /\ UNCHANGED <<music, loaded, should_monitor, monitor_thread, in_load,
                   playbacks, monitor, heard, ended, callbacks>>
    /\ UNCHANGED otherVars

\* play() with any other state and a file loaded: pygame.mixer.music.play()
\* starts the loaded file from its beginning, ending what was playing.
PlayStart ==
    /\ caller = "idle"
    /\ state # "paused"
    /\ loaded
    /\ playbacks < MaxPlaybacks
    /\ music' = "playing"
    /\ playbacks' = playbacks + 1
    /\ ended' = [p \in Playbacks |->
                    IF p = playbacks + 1 THEN "running"
                    ELSE IF ended[p] = "running" THEN "restarted"
                    ELSE ended[p]]
    /\ caller' = "play_state"
    /\ UNCHANGED <<state, loaded, should_monitor, monitor_thread, in_load, result,
                   monitor, heard, callbacks>>
    /\ UNCHANGED otherVars

\* play() with nothing loaded: pygame.mixer.music.play() raises, the except
\* clause returns False.
PlayFails ==
    /\ caller = "idle"
    /\ state # "paused"
    /\ ~loaded
    /\ result' = "false"
    /\ UNCHANGED <<state, music, loaded, should_monitor, monitor_thread, caller,
                   in_load, playbacks, monitor, heard, ended, callbacks>>
    /\ UNCHANGED otherVars

\* play(), starting: _update_state(PLAYING).
PlayState ==
    /\ caller = "play_state"
    /\ state' = "playing"
    /\ caller' = "play_monitor"
    /\ UNCHANGED <<music, loaded, should_monitor, monitor_thread, in_load, result,
                   playbacks, monitor, heard, ended, callbacks>>
    /\ UNCHANGED otherVars

\* _start_monitor: the flag is set and a new thread started, whatever
\* the thread started before is doing; play() returns True.
StartMonitor ==
    /\ caller = "play_monitor"
    /\ should_monitor' = TRUE
    /\ monitor_thread' = playbacks
    /\ monitor' = [monitor EXCEPT ![playbacks] = "loop"]
    /\ result' = "true"
    /\ caller' = "idle"
    /\ UNCHANGED <<state, music, loaded, in_load, playbacks, heard, ended,
                   callbacks>>
    /\ UNCHANGED otherVars

\* pause() with the state PLAYING: the music is paused.
PauseMusic ==
    /\ caller = "idle"
    /\ state = "playing"
    /\ music' = IF music = "playing" THEN "paused" ELSE music
    /\ caller' = "pause_state"
    /\ UNCHANGED <<state, loaded, should_monitor, monitor_thread, in_load, result,
                   playbacks, monitor, heard, ended, callbacks>>
    /\ UNCHANGED otherVars

\* pause(): _update_state(PAUSED), return True.
PauseState ==
    /\ caller = "pause_state"
    /\ state' = "paused"
    /\ result' = "true"
    /\ caller' = "idle"
    /\ UNCHANGED <<music, loaded, should_monitor, monitor_thread, in_load,
                   playbacks, monitor, heard, ended, callbacks>>
    /\ UNCHANGED otherVars

\* pause() with any other state: nothing but return True.
PauseNothing ==
    /\ caller = "idle"
    /\ state # "playing"
    /\ result' = "true"
    /\ UNCHANGED <<state, music, loaded, should_monitor, monitor_thread, caller,
                   in_load, playbacks, monitor, heard, ended, callbacks>>
    /\ UNCHANGED otherVars

\* The first statements of stop(): the music is stopped and the file unloaded.
StopMusic ==
    /\ caller = "idle"
    /\ music' = "idle"
    /\ loaded' = FALSE
    /\ ended' = [p \in Playbacks |->
                    IF ended[p] = "running" THEN "stopped" ELSE ended[p]]
    /\ caller' = "stop_state"
    /\ UNCHANGED <<state, should_monitor, monitor_thread, result, playbacks,
                   monitor, heard, callbacks>>
    /\ UNCHANGED otherVars

\* stop() called by the user of the player.
Stop ==
    /\ StopMusic
    /\ in_load' = FALSE

\* load(): it calls stop() first.
Load ==
    /\ StopMusic
    /\ in_load' = TRUE

\* stop(): _update_state(STOPPED).
StopState ==
    /\ caller = "stop_state"
    /\ state' = "stopped"
    /\ caller' = "stop_monitor"
    /\ UNCHANGED <<music, loaded, should_monitor, monitor_thread, in_load, result,
                   playbacks, monitor, heard, ended, callbacks>>
    /\ UNCHANGED otherVars

\* _stop_monitor: the flag is unset.
StopMonitor ==
    /\ caller = "stop_monitor"
    /\ should_monitor' = FALSE
    /\ caller' = "stop_join"
    /\ UNCHANGED <<state, music, loaded, monitor_thread, in_load, result,
                   playbacks, monitor, heard, ended, callbacks>>
    /\ UNCHANGED otherVars

\* _stop_monitor: join(timeout=1.0) of the thread last started returns when
\* that thread has ended, or after the second when the thread is held in
\* the callback; stop() returns True, load() goes on.
StopJoin ==
    /\ caller = "stop_join"
    /\ IF monitor_thread = 0 THEN TRUE
       ELSE monitor[monitor_thread] \in {"exited", "callback"}
    /\ caller' = IF in_load THEN "load_file" ELSE "idle"
    /\ result' = IF in_load THEN result ELSE "true"
    /\ UNCHANGED <<state, music, loaded, should_monitor, monitor_thread, in_load,
                   playbacks, monitor, heard, ended, callbacks>>
    /\ UNCHANGED otherVars

\* load() after its stop(): a file that exists is loaded and the state set
\* to STOPPED; for one that does not False is returned.
LoadFile ==
    /\ caller = "load_file"
    /\ \E exists \in BOOLEAN :
          IF exists
          THEN loaded' = TRUE /\ state' = "stopped" /\ result' = "true"
          ELSE loaded' = loaded /\ state' = state /\ result' = "false"
    /\ in_load' = FALSE
    /\ caller' = "idle"
    /\ UNCHANGED <<music, should_monitor, monitor_thread, playbacks, monitor,
                   heard, ended, callbacks>>
    /\ UNCHANGED otherVars

\* The music played reaches its end.
MusicEnds ==
    /\ music = "playing"
    /\ music' = "idle"
    /\ ended' = [ended EXCEPT ![playbacks] = "natural"]
    /\ UNCHANGED <<state, loaded, should_monitor, monitor_thread, caller, in_load,
                   result, playbacks, monitor, heard, callbacks>>
    /\ UNCHANGED otherVars

\* A step of monitor thread t that changes only where the thread stands.
MonitorGoes(t, to) ==
    /\ monitor' = [monitor EXCEPT ![t] = to]
    /\ UNCHANGED <<music, loaded, should_monitor, monitor_thread, caller, in_load,
                   result, playbacks, ended>>
    /\ UNCHANGED otherVars

\* _monitor_playback: the loop's condition, then the sleep.
MonitorLoop(t) ==
    /\ monitor[t] = "loop"
    /\ MonitorGoes(t, IF should_monitor THEN "check_state" ELSE "exited")
    /\ UNCHANGED <<state, heard, callbacks>>

\* _monitor_playback: the test of the state.
MonitorCheckState(t) ==
    /\ monitor[t] = "check_state"
    /\ MonitorGoes(t, IF state = "playing" THEN "check_busy" ELSE "loop")
    /\ UNCHANGED <<state, heard, callbacks>>

\* _monitor_playback: the test of get_busy(); when it is false the playback
\* last started is taken as finished.
MonitorCheckBusy(t) ==
    /\ monitor[t] = "check_busy"
    /\ \E paused_busy \in BOOLEAN :
          IF GetBusy(paused_busy)
          THEN MonitorGoes(t, "loop") /\ heard' = heard
          ELSE MonitorGoes(t, "update") /\ heard' = [heard EXCEPT ![t] = playbacks]
    /\ UNCHANGED <<state, callbacks>>

\* _monitor_playback: _update_state(STOPPED).
MonitorUpdate(t) ==
    /\ monitor[t] = "update"
    /\ state' = "stopped"
    /\ MonitorGoes(t, "callback")
    /\ UNCHANGED <<heard, callbacks>>

\* _monitor_playback: on_finish_callback(), then break: the thread ends.
MonitorCallback(t) ==
    /\ monitor[t] = "callback"
    /\ callbacks' = [callbacks EXCEPT ![heard[t]] = @ + 1]
    /\ MonitorGoes(t, "exited")
    /\ UNCHANGED <<state, heard>>

\* The monitor threads' steps.
MonitorStep ==
    \E t \in Playbacks :
        \/ MonitorLoop(t)
        \/ MonitorCheckState(t)
        \/ MonitorCheckBusy(t)
        \/ MonitorUpdate(t)
        \/ MonitorCallback(t)

\* The calls of load, play, pause and stop made one after the other, the
\* monitor threads and the music, in any interleaving.
NextPlayer ==
    \/ PlayResume
    \/ ResumeState
    \/ PlayStart
    \/ PlayFails
    \/ PlayState
    \/ StartMonitor
    \/ PauseMusic
    \/ PauseState
    \/ PauseNothing
    \/ Stop
    \/ Load
    \/ StopState
    \/ StopMonitor
    \/ StopJoin
    \/ LoadFile
    \/ MusicEnds
    \/ MonitorStep

SpecPlayer == Init /\ [][NextPlayer]_vars

\* ------------------------------------------- merge_audiobook on its own
\* Any list of at most MaxFiles entries over the table's rows.
FileLists ==
    UNION { [1..n -> { AudioFile(i) : i \in TableRows }] : n \in 0..MaxFiles }

\* Any content of the audio directory.
Disks ==
    [AllNames -> {Absent, Corrupt} \cup { Audio(d) : d \in Durations }]

\* A caller about to call merge_audiobook with some list, over some disk.
InitMerge ==
    /\ is_processing = FALSE
    /\ pc = "merge_call"
    /\ rows = <<>>
    /\ create_master = TRUE
    /\ idx = 0
    /\ retry = 0
    /\ processed = 0
    /\ failed = 0
    /\ progress = <<0, 0>>
    /\ stats = <<0, 0, 0>>
    /\ audio_fs \in Disks
    /\ sub_fs = [n \in AllNames |-> NoSubtitle]
    /\ chapters = <<>>
    /\ master_srt = NoSubtitle
    /\ compose_ok = "none"
    /\ compose_io = TRUE
    /\ audio_files \in FileLists
    /\ merge_result = NoResult
    /\ merge_called = FALSE
    /\ merge_io = NoIo
    /\ master_mp3 = NoMaster
    /\ summary = NoSummary
    /\ attempts = <<>>
    /\ outcome = <<>>
    /\ sleeps = <<>>
    /\ order = <<>>
    /\ last = NoCall
    /\ NoCalls

MergeCall ==
    /\ pc = "merge_call"
    /\ UNCHANGED <<callVars, appVars, playerVars>>
    /\ \E exportOk \in BOOLEAN, tagOk \in BOOLEAN :
          LET m == MergeAudiobook(audio_files, audio_fs, master_mp3, exportOk, tagOk)
          IN  /\ merge_result' = m.result
              /\ master_mp3' = m.master
              /\ merge_io' = [export |-> exportOk, tags |-> tagOk]
    /\ merge_called' = TRUE
    /\ pc' = "merge_returned"
    /\ UNCHANGED <<audio_fs, audio_files>>
    /\ UNCHANGED batchVars

NextMerge == MergeCall

SpecMerge == InitMerge /\ [][NextMerge]_vars


\* --------------------------------------------- add_chapter_markers on its own
\* The contiguous boundaries of chapters of the given lengths: chapter i
\* carries the id and title of row i of the table.
RECURSIVE BoundariesOf(_, _, _)
BoundariesOf(lengths, i, pos) ==
    IF i > Len(lengths) THEN <<>>
    ELSE <<Boundary(AudioFile(((i - 1) % Len(Table)) + 1), pos, lengths[i])>>
         \o BoundariesOf(lengths, i + 1, pos + lengths[i])

\* The boundary lists of at most MaxFiles chapters.
BoundaryLists ==
    { BoundariesOf(lengths, 1, 0) :
        lengths \in UNION { [1..n -> Durations] : n \in 0..MaxFiles } }

\* A caller holding an exported master file without chapter frames.
InitTags ==
    /\ is_processing = FALSE
    /\ pc = "exported"
    /\ rows = <<>>
    /\ create_master = TRUE
    /\ idx = 0
    /\ retry = 0
    /\ processed = 0
    /\ failed = 0
    /\ progress = <<0, 0>>
    /\ stats = <<0, 0, 0>>
    /\ audio_fs = [n \in AllNames |-> Absent]
    /\ sub_fs = [n \in AllNames |-> NoSubtitle]
    /\ chapters = <<>>
    /\ master_srt = NoSubtitle
    /\ compose_ok = "none"
    /\ compose_io = TRUE
    /\ audio_files = <<>>
    /\ merge_result = NoResult
    /\ merge_called = FALSE
    /\ merge_io = NoIo
    /\ master_mp3 \in { [state |-> "ok", ms |-> d, tags |-> NoTags] : d \in Durations }
    /\ summary = NoSummary
    /\ attempts = <<>>
    /\ outcome = <<>>
    /\ sleeps = <<>>
    /\ order = <<>>
    /\ last = NoCall
    /\ NoCalls

\* add_chapter_markers(audio_path, chapter_info) on the file as it is, a
\* first and then a second time: it returns with the frames saved, or raises
\* and leaves the file alone.
MarkersCall ==
    /\ pc \in {"exported", "encoded"}
    /\ \E info \in BoundaryLists, tagOk \in BOOLEAN :
          /\ marker_info' = info
          /\ merge_io' = [merge_io EXCEPT !.tags = tagOk]
          /\ master_mp3' = IF tagOk
                           THEN [master_mp3 EXCEPT
                                    !.tags = AddChapterMarkers(@, info)]
                           ELSE master_mp3
    /\ pc' = IF pc = "exported" THEN "encoded" ELSE "reencoded"
    /\ UNCHANGED <<is_processing, rows, create_master, idx, retry, processed,
                   failed, progress, stats, audio_fs, sub_fs, chapters,
                   master_srt, compose_ok, audio_files, merge_result,
                   merge_called, summary, attempts, outcome, sleeps, order,
                   last, timestamp, offset_ms, shifted, restored, compose_io>>
    /\ UNCHANGED <<appVars, playerVars>>

NextTags == MarkersCall

SpecTags == InitTags /\ [][NextTags]_vars

\* ---------------------------------------- the SubtitleComposer on its own
\* Two cues numbered 7 and 9, blank lines of two kinds between them, the
\* second cue written with '.', unpadded and without blanks around '-->',
\* with two text lines.
WellFormedSrt ==
    << <<"7">>,
       WriteStamp(Time(1000), ",", TRUE) \o Arrow \o WriteStamp(Time(2500), ",", TRUE),
       <<"a">>,
       <<>>,
       <<" ", " ">>,
       <<"9">>,
       WriteStamp(Time(3000), ".", FALSE) \o <<"-", "-", ">">>
           \o WriteStamp(Time(4500), ".", FALSE),
       <<"b">>,
       <<"c", " ">> >>

\* A block of one line, a block whose second line has no '-->', a block
\* whose second line has '-->' between two words, and a cue.
MixedSrt ==
    << <<"1">>,
       <<>>,
       <<"2">>,
       <<"a">>,
       <<>>,
       <<"3">>,
       <<"x">> \o Arrow \o <<"y">>,
       <<"b">>,
       <<>>,
       <<"4">>,
       WriteStamp(Time(1000), ",", TRUE) \o Arrow \o WriteStamp(Time(2000), ",", TRUE),
       <<"c">> >>

\* No cue at all: a block of one line and a block without timing line.
MalformedSrt == << <<"1">>, <<>>, <<"2">>, <<"a">> >>

\* What each subtitle file holds when it exists.
FileContent ==
    [n \in AllNames |->
        IF n = FilenameOf[1] THEN WellFormedSrt
        ELSE IF n = FilenameOf[3] THEN MixedSrt
        ELSE MalformedSrt]

\* The subtitle directory with any of the files missing.
SubtitleDisks ==
    { [n \in AllNames |-> IF n \in present THEN Subtitle(FileContent[n])
                          ELSE NoSubtitle] :
        present \in SUBSET AllNames }

\* The rows whose chapters are queued: the first row of every file name.
QueuedRows ==
    { i \in TableRows : \A j \in 1..(i - 1) : FilenameOf[j] # FilenameOf[i] }

\* The durations handed to add_chapter: 5.0 s and 64.6 s, in units of 1/15 s.
QueuedDurations == {75, 969}

\* A new composer over some subtitle directory.
InitCompose ==
    /\ is_processing = FALSE
    /\ pc = "queue"
    /\ rows = <<>>
    /\ create_master = TRUE
    /\ idx = 0
    /\ retry = 0
    /\ processed = 0
    /\ failed = 0
    /\ progress = <<0, 0>>
    /\ stats = <<0, 0, 0>>
    /\ audio_fs = [n \in AllNames |-> Absent]
    /\ sub_fs \in SubtitleDisks
    /\ chapters = <<>>
    /\ master_srt = NoSubtitle
    /\ compose_ok = "none"
    /\ compose_io = TRUE
    /\ audio_files = <<>>
    /\ merge_result = NoResult
    /\ merge_called = FALSE
    /\ merge_io = NoIo
    /\ master_mp3 = NoMaster
    /\ summary = NoSummary
    /\ attempts = <<>>
    /\ outcome = <<>>
    /\ sleeps = <<>>
    /\ order = <<>>
    /\ last = NoCall
    /\ NoCalls

\* add_chapter(subtitle_path, chapter_id, duration) for a row of the table.
AddChapterCall ==
    /\ pc = "queue"
    /\ Len(chapters) < MaxChapters
    /\ \E i \in QueuedRows, d \in QueuedDurations :
          chapters' = AddChapter(chapters, FilenameOf[i], Table[i].id, d)
    /\ UNCHANGED <<is_processing, pc, rows, create_master, idx, retry,
                   processed, failed, progress, stats, audio_fs, sub_fs,
                   master_srt, compose_ok, compose_io, audio_files,
                   merge_result, merge_called, merge_io, master_mp3, summary,
                   attempts, outcome, sleeps, order, last>>
    /\ UNCHANGED <<callVars, appVars, playerVars>>

\* compose_master_subtitle(output_path) over the queue as it is.
ComposeCall ==
    /\ pc = "queue"
    /\ \E ioOk \in BOOLEAN :
          LET r == ComposeMasterSubtitle(chapters, sub_fs, master_srt, ioOk)
          IN  /\ chapters' = r.chapters
              /\ master_srt' = r.master
              /\ compose_ok' = IF r.ok THEN "true" ELSE "false"
              /\ compose_io' = ioOk
    /\ pc' = "composed"
    /\ UNCHANGED <<is_processing, rows, create_master, idx, retry, processed,
                   failed, progress, stats, audio_fs, sub_fs, audio_files,
                   merge_result, merge_called, merge_io, master_mp3, summary,
                   attempts, outcome, sleeps, order, last>>
    /\ UNCHANGED <<callVars, appVars, playerVars>>

NextCompose == AddChapterCall \/ ComposeCall

SpecCompose == InitCompose /\ [][NextCompose]_vars

\* ------------------------------------- _add_offset_to_timestamp on its own
\* The times the timestamps of the model are written from.
StampFields ==
    [h : {0, 1, 99, 123}, m : {0, 59}, s : {0, 59}, ms : {0, 5, 999}]

WellFormedStamps ==
    { WriteStamp(f, sep, padded) :
        f \in StampFields, sep \in {",", "."}, padded \in BOOLEAN }

\* Strings the expression does not match: empty, no digits, no millisecond
\* part, a blank before the digits.
MalformedStamps ==
    { <<>>, <<"a", "b">>, <<"0", "0", ":", "0", "0", ":", "0", "1">>,
      <<" ", "0", ":", "0", ":", "1", ",", "0">> }

Offsets == {0, 1, 1500, 5000, 3600000, -1, -1500}

\* A caller about to shift some timestamp by some offset.
InitTimestamp ==
    /\ is_processing = FALSE
    /\ pc = "shift_call"
    /\ rows = <<>>
    /\ create_master = TRUE
    /\ idx = 0
    /\ retry = 0
    /\ processed = 0
    /\ failed = 0
    /\ progress = <<0, 0>>
    /\ stats = <<0, 0, 0>>
    /\ audio_fs = [n \in AllNames |-> Absent]
    /\ sub_fs = [n \in AllNames |-> NoSubtitle]
    /\ chapters = <<>>
    /\ master_srt = NoSubtitle
    /\ compose_ok = "none"
    /\ compose_io = TRUE
    /\ audio_files = <<>>
    /\ merge_result = NoResult
    /\ merge_called = FALSE
    /\ merge_io = NoIo
    /\ master_mp3 = NoMaster
    /\ summary = NoSummary
    /\ attempts = <<>>
    /\ outcome = <<>>
    /\ sleeps = <<>>
    /\ order = <<>>
    /\ last = NoCall
    /\ marker_info = <<>>
    /\ timestamp \in WellFormedStamps \cup MalformedStamps
    /\ offset_ms \in Offsets
    /\ shifted = <<>>
    /\ restored = <<>>
    /\ PlayerInit
    /\ preview_pc = "idle"
    /\ warned = FALSE
    /\ batches = 0

\* _add_offset_to_timestamp(timestamp, offset_ms)
ShiftCall ==
    /\ pc = "shift_call"
    /\ shifted' = AddOffsetToTimestamp(timestamp, offset_ms)
    /\ pc' = "shifted"
    /\ UNCHANGED <<marker_info, timestamp, offset_ms, restored>>
    /\ UNCHANGED <<audio_fs, audio_files, merge_result, merge_called, merge_io,
                   master_mp3>>
    /\ UNCHANGED <<batchVars, appVars, playerVars>>

\* _add_offset_to_timestamp(shifted, -offset_ms) on what the first call
\* returned.
ShiftBackCall ==
    /\ pc = "shifted"
    /\ restored' = AddOffsetToTimestamp(shifted, -offset_ms)
    /\ pc' = "restored"
    /\ UNCHANGED <<marker_info, timestamp, offset_ms, shifted>>
    /\ UNCHANGED <<audio_fs, audio_files, merge_result, merge_called, merge_io,
                   master_mp3>>
    /\ UNCHANGED <<batchVars, appVars, playerVars>>

NextTimestamp == ShiftCall \/ ShiftBackCall

SpecTimestamp == InitTimestamp /\ [][NextTimestamp]_vars

\* ------------------------------------------------ claims: merge_audiobook
Returned == pc = "merge_returned"

\* The listed files that exist on disk, in list order.
Present(files, disk) == SelectSeq(files, LAMBDA f : disk[f.path].state # "absent")

RECURSIVE SumSeq(_)
SumSeq(s) == IF s = <<>> THEN 0 ELSE Head(s) + SumSeq(Tail(s))

DurationsOf(info) == [i \in 1..Len(info) |-> info[i].duration_ms]

\* C1: the boundary list merge_audiobook returns is contiguous: the first
\* entry starts at 0, every entry ends at its start plus its duration, every
\* later entry starts where the previous one ends, and the last entry ends
\* at the reported total, which is the sum of the durations.
C1_BoundariesContiguous ==
    (Returned /\ merge_result.success) =>
        LET info == merge_result.chapter_info
            n == Len(info)
        IN  /\ n > 0
            /\ info[1].start_ms = 0
            /\ \A i \in 1..n : info[i].end_ms = info[i].start_ms + info[i].duration_ms
            /\ \A i \in 1..(n - 1) : info[i + 1].start_ms = info[i].end_ms
            /\ info[n].end_ms = merge_result.total_duration_ms
            /\ merge_result.total_duration_ms = SumSeq(DurationsOf(info))
            /\ merge_result.total_chapters = n

\* A merge of a list with a missing file that returned several boundaries
\* of different lengths.
C1_Witness ==
    /\ Returned
    /\ merge_result.success
    /\ Len(merge_result.chapter_info) >= 2
    /\ Len(Present(audio_files, audio_fs)) < Len(audio_files)
    /\ merge_result.chapter_info[1].duration_ms # merge_result.chapter_info[2].duration_ms

\* C8: a missing file is skipped without an error: when decoding, export
\* and tagging go through and some listed file exists, the merge succeeds,
\* and a successful merge returns exactly one boundary per existing file, in
\* list order, each starting where the previous existing file ended.
C8_MissingFileSkipped ==
    Returned =>
        LET pres == Present(audio_files, audio_fs)
            info == merge_result.chapter_info
        IN  /\ ( /\ merge_io.export
                 /\ merge_io.tags
                 /\ pres # <<>>
                 /\ \A i \in 1..Len(pres) : audio_fs[pres[i].path].state = "ok" )
               => merge_result.success
            /\ merge_result.success =>
                 /\ Len(info) = Len(pres)
                 /\ \A i \in 1..Len(pres) :
                       /\ info[i].id = pres[i].id
                       /\ info[i].title = pres[i].title
                       /\ info[i].duration_ms = audio_fs[pres[i].path].ms
                       /\ info[i].start_ms =
                            SumSeq([k \in 1..(i - 1) |-> audio_fs[pres[k].path].ms])
                 /\ merge_result.total_duration_ms =
                      SumSeq([k \in 1..Len(pres) |-> audio_fs[pres[k].path].ms])

\* Three files listed, the second missing: two boundaries, the third file
\* starting where the first ends.
C8_Witness ==
    /\ Returned
    /\ merge_result.success
    /\ Len(audio_files) = 3
    /\ audio_fs[audio_files[1].path].state = "ok"
    /\ audio_fs[audio_files[2].path].state = "absent"
    /\ audio_fs[audio_files[3].path].state = "ok"
    /\ Len(merge_result.chapter_info) = 2
    /\ merge_result.chapter_info[2].id = audio_files[3].id
    /\ merge_result.chapter_info[2].start_ms = audio_fs[audio_files[1].path].ms

\* C9: merge_audiobook reports failure if and only if none of the listed
\* files exists.
C9_FailsOnlyIfNoneSurvive ==
    Returned =>
        (~merge_result.success <=> Present(audio_files, audio_fs) = <<>>)

\* C10: when add_chapter_markers raises after the merged audio was
\* exported, merge_audiobook still reports the merge as produced, with its
\* boundaries and total duration.
C10_TagFailureKeepsMerge ==
    (Returned /\ master_mp3.state = "ok" /\ ~merge_io.tags) =>
        /\ merge_result.success
        /\ merge_result.total_duration_ms = master_mp3.ms
        /\ Len(merge_result.chapter_info) > 0


\* -------------------------------------------- claims: add_chapter_markers
\* The latest add_chapter_markers call returned normally.
Encoded == pc \in {"encoded", "reencoded"} /\ merge_io.tags

\* "chap001", "chap002", ... written out digit by digit (idx < 1000).
ChapId(i) ==
    <<"c", "h", "a", "p", DigitChars[((i \div 100) % 10) + 1],
      DigitChars[((i \div 10) % 10) + 1], DigitChars[(i % 10) + 1]>>

\* C11: after add_chapter_markers on a boundary list of length n, the file
\* holds for every boundary i exactly one chapter frame with element id
\* chap00i, in boundary order, carrying the boundary's start_ms, end_ms and
\* title; the ids are pairwise distinct; there is exactly one
\* table-of-contents frame and its child list is the ordered list of the n
\* ids; and on a file that had no chapter frame these n are all its frames.
C11_MarkersMatchBoundaries ==
    Encoded =>
        LET t == master_mp3.tags
            n == Len(marker_info)
        IN  /\ Len(t.chap) >= n
            /\ \A i \in 1..n :
                  t.chap[i] = [element_id |-> ChapId(i),
                               start_time |-> marker_info[i].start_ms,
                               end_time   |-> marker_info[i].end_ms,
                               title      |-> marker_info[i].title]
            /\ \A i \in 1..n, k \in 1..Len(t.chap) :
                  t.chap[k].element_id = ChapId(i) => k = i
            /\ \A i, j \in 1..n : i # j => ChapId(i) # ChapId(j)
            /\ Len(t.ctoc) = 1
            /\ t.ctoc[1].element_id = <<"t", "o", "c">>
            /\ t.ctoc[1].child_element_ids = [i \in 1..n |-> ChapId(i)]
            /\ pc = "encoded" => Len(t.chap) = n

\* An exported file tagged with three boundaries of different lengths.
C11_Witness ==
    /\ pc = "encoded"
    /\ merge_io.tags
    /\ Len(marker_info) = 3
    /\ marker_info[2].duration_ms # marker_info[3].duration_ms
    /\ Len(master_mp3.tags.chap) = 3
    /\ master_mp3.tags.chap[3].start_time = marker_info[2].end_ms

\* C12: after add_chapter_markers on a file that already carries chapter
\* and table-of-contents frames, the file holds exactly one
\* table-of-contents frame and exactly as many chapter frames as the latest
\* call had boundaries.
C12_ReencodingReplaces ==
    (pc = "reencoded" /\ merge_io.tags) =>
        /\ Len(master_mp3.tags.ctoc) = 1
        /\ Len(master_mp3.tags.chap) = Len(marker_info)

\* --------------------------------------- claims: _add_offset_to_timestamp
\* The time a well-formed timestamp of the model was written from.
FieldsOf(ts) ==
    CHOOSE f \in StampFields :
        \E sep \in {",", "."}, padded \in BOOLEAN : ts = WriteStamp(f, sep, padded)

\* h*3600000 + m*60000 + s*1000 + ms
ValueOf(f) == f.h * 3600000 + f.m * 60000 + f.s * 1000 + f.ms

TwoDigits(n) == <<DigitChars[((n \div 10) % 10) + 1], DigitChars[(n % 10) + 1]>>
ThreeDigits(n) == <<DigitChars[((n \div 100) % 10) + 1]>> \o TwoDigits(n)

\* HH:MM:SS,mmm of a time of v >= 0 milliseconds (below 1000 hours): minutes
\* and seconds below 60, milliseconds below 1000, the hours whole.
Canonical(v) ==
    LET h == v \div 3600000
    IN  (IF h < 100 THEN TwoDigits(h) ELSE ThreeDigits(h)) \o <<":">>
        \o TwoDigits((v \div 60000) % 60) \o <<":">>
        \o TwoDigits((v \div 1000) % 60) \o <<",">> \o ThreeDigits(v % 1000)

\* C16: a timestamp shifted by an offset and then by the opposite offset
\* denotes the original time again, and a shift never returns a negative
\* time: when the shifted time would fall below zero, 00:00:00,000 is
\* returned.
C16_ShiftBackAndClamp ==
    timestamp \in WellFormedStamps =>
        LET v == ValueOf(FieldsOf(timestamp))
        IN  /\ pc \in {"shifted", "restored"} =>
                 shifted = Canonical(IF v + offset_ms < 0 THEN 0 ELSE v + offset_ms)
            /\ (pc = "restored" /\ v + offset_ms >= 0) => restored = Canonical(v)

\* C17: for a timestamp H:M:S,mmm or H:M:S.mmm, zero-padded or not, and an
\* offset >= 0, the returned timestamp is HH:MM:SS,mmm of the time
\* h*3600000 + m*60000 + s*1000 + ms + offset: minutes and seconds below 60,
\* milliseconds below 1000, and the hours written whole, beyond 99 too.
C17_ShiftedValue ==
    (pc \in {"shifted", "restored"} /\ timestamp \in WellFormedStamps
       /\ offset_ms >= 0) =>
        shifted = Canonical(ValueOf(FieldsOf(timestamp)) + offset_ms)

\* 123:59:59.999 shifted by 1 ms: every field carries and the hours go on
\* beyond 99.
C17_Witness ==
    /\ pc = "shifted"
    /\ timestamp = <<"1", "2", "3", ":", "5", "9", ":", "5", "9", ".", "9", "9", "9">>
    /\ offset_ms = 1
    /\ shifted = <<"1", "2", "4", ":", "0", "0", ":", "0", "0", ",", "0", "0", "0">>

\* ----------------------------------------------- claims: SubtitleComposer
\* compose_master_subtitle has returned and its file I/O went through.
Composed == pc = "composed" /\ compose_io

\* The blocks of the master file.
MasterCues == SplitBlocks(master_srt.lines)

\* The cues each subtitle file of the model holds: times in ms and text.
CuesOf(n) ==
    IF n = FilenameOf[1]
    THEN << [start_ms |-> 1000, end_ms |-> 2500, text |-> << <<"a">> >>],
            [start_ms |-> 3000, end_ms |-> 4500, text |-> << <<"b">>, <<"c">> >>] >>
    ELSE IF n = FilenameOf[3]
    THEN << [start_ms |-> 1000, end_ms |-> 2000, text |-> << <<"c">> >>] >>
    ELSE <<>>

\* The text of every block of a file that has two lines or more and '-->'
\* in the second: the blocks _adjust_subtitle_timing does not pass over.
TextsOf(n) ==
    IF n = FilenameOf[1] THEN << << <<"a">> >>, << <<"b">>, <<"c">> >> >>
    ELSE IF n = FilenameOf[3] THEN << << <<"b">> >>, << <<"c">> >> >>
    ELSE <<>>

FilePresent(k) == sub_fs[chapters[k].subtitle_path].state # "absent"

\* The sum of the durations queued before chapter k, in 1/15 s and in ms.
QueuedBefore(k) == SumSeq([j \in 1..(k - 1) |-> chapters[j].duration])
QueuedBeforeMs(k) == (QueuedBefore(k) * 1000) \div CharsPerSecond

\* The texts the master is to hold: chapter after chapter, file order within.
RECURSIVE TextsFrom(_)
TextsFrom(k) ==
    IF k > Len(chapters) THEN <<>>
    ELSE (IF FilePresent(k) THEN TextsOf(chapters[k].subtitle_path) ELSE <<>>)
         \o TextsFrom(k + 1)

\* The text lines of a block.
TextOf(block) == SubSeq(block, 3, Len(block))

\* str(i) written out for i < 100.
IndexText(i) == IF i < 10 THEN <<DigitChars[i + 1]>> ELSE TwoDigits(i)

\* The timing line of a cue from start to end (ms).
TimingLine(start_ms, end_ms) == Canonical(start_ms) \o Arrow \o Canonical(end_ms)

\* C13: the offset of the first chapter is 0 and the offset of chapter k is
\* the sum of the durations queued before it, and every cue of a chapter's
\* file is in the master with its start and its end increased by exactly
\* that sum, in milliseconds.
C13_CuesShiftedBySum ==
    Composed =>
        \A k \in 1..Len(chapters) :
            /\ chapters[k].offset = QueuedBefore(k)
            /\ FilePresent(k) =>
                 LET cues == CuesOf(chapters[k].subtitle_path)
                 IN  \A c \in 1..Len(cues) :
                        \E m \in 1..Len(MasterCues) :
                            /\ MasterCues[m][2] =
                                 TimingLine(cues[c].start_ms + QueuedBeforeMs(k),
                                            cues[c].end_ms + QueuedBeforeMs(k))
                            /\ TextOf(MasterCues[m]) = cues[c].text

\* C14: the blocks of the master are numbered 1, 2, ..., N without gap or
\* repeat, chapter after chapter in queue order and in file order within a
\* chapter, whatever numbers the blocks carry in the chapter files and
\* whatever blocks were dropped or files missing.
C14_IndicesContiguous ==
    Composed =>
        LET texts == TextsFrom(1)
        IN  /\ Len(MasterCues) = Len(texts)
            /\ \A i \in 1..Len(MasterCues) :
                  /\ MasterCues[i][1] = IndexText(i)
                  /\ TextOf(MasterCues[i]) = texts[i]

\* A master of four blocks composed from a file with dropped blocks, a
\* missing file and a file whose blocks are numbered 7 and 9.
C14_Witness ==
    /\ Composed
    /\ Len(chapters) = 3
    /\ chapters[1].subtitle_path = FilenameOf[3] /\ FilePresent(1)
    /\ ~FilePresent(2)
    /\ chapters[3].subtitle_path = FilenameOf[1] /\ FilePresent(3)
    /\ Len(MasterCues) = 4
    /\ MasterCues[4][1] = <<"4">>
    /\ TextOf(MasterCues[4]) = << <<"b">>, <<"c">> >>

\* Both sides of '-->' in a timing line are timestamps.
TwoTimestamps(timing_line) ==
    /\ HasArrow(timing_line)
    /\ MatchTimestamp(Strip(ArrowParts(timing_line)[1])).matched
    /\ MatchTimestamp(Strip(ArrowParts(timing_line)[2])).matched

\* C15: every block of the master has at least two lines and a timing line
\* of two valid timestamps around '-->': a block whose timing line lacks
\* them is never emitted.
C15_OnlyWellFormedEmitted ==
    Composed =>
        \A m \in 1..Len(MasterCues) :
            /\ Len(MasterCues[m]) >= 2
            /\ TwoTimestamps(MasterCues[m][2])

\* C18: compose_master_subtitle reports failure exactly when the master
\* holds no cue.
C18_FailsIffNoCue ==
    Composed => (compose_ok = "false" <=> Len(MasterCues) = 0)

\* C19: a missing subtitle file does not fail the composition: the call
\* returns True, the offsets are the sums of all the queued durations (those
\* of the chapters without file too), the blocks of every chapter whose file
\* exists are in the master, shifted by their chapter's offset, and the
\* master is numbered 1..N.
C19_MissingFileSkipped ==
    (Composed /\ \E k \in 1..Len(chapters) : ~FilePresent(k)) =>
        /\ compose_ok = "true"
        /\ Len(MasterCues) = Len(TextsFrom(1))
        /\ \A i \in 1..Len(MasterCues) : MasterCues[i][1] = IndexText(i)
        /\ \A k \in 1..Len(chapters) :
              /\ chapters[k].offset = QueuedBefore(k)
              /\ FilePresent(k) =>
                   LET cues == CuesOf(chapters[k].subtitle_path)
                       shift == OffsetMs(chapters[k])
                   IN  \A c \in 1..Len(cues) :
                          \E m \in 1..Len(MasterCues) :
                              /\ MasterCues[m][2] =
                                   TimingLine(cues[c].start_ms + shift,
                                              cues[c].end_ms + shift)
                              /\ TextOf(MasterCues[m]) = cues[c].text

\* Three chapters of 5 s queued, the file of the second missing: the cue of
\* the third is in the master, shifted by 10 s and numbered 4.
C19_Witness ==
    /\ Composed
    /\ compose_ok = "true"
    /\ Len(chapters) = 3
    /\ chapters[1].subtitle_path = FilenameOf[1] /\ FilePresent(1)
    /\ chapters[1].duration = 75
    /\ chapters[2].duration = 75 /\ ~FilePresent(2)
    /\ chapters[3].subtitle_path = FilenameOf[3] /\ FilePresent(3)
    /\ Len(MasterCues) = 4
    /\ MasterCues[4] = <<IndexText(4), TimingLine(11000, 12000), <<"c">> >>

\* -------------------------------------------------- claims: _batch_process
Chapters == 1..Len(rows)
LoopOver == pc \in {"compose", "merge", "summary", "finally", "done"}
NameOf(i) == FilenameOf[rows[i]]
IdOf(i) == Table[rows[i]].id

Errors(a) == Len(SelectSeq(a, LAMBDA x : x = "err"))
Min(a, b) == IF a < b THEN a ELSE b

\* C2: for every chapter in both outputs of a batch, the offset added to its
\* cues in the master subtitle equals its start_ms in the boundary list of
\* the master audiobook.
C2_OffsetsMatchBoundaries ==
    (pc = "done" /\ compose_ok = "true" /\ merge_called /\ merge_result.success) =>
        \A k \in 1..Len(chapters), j \in 1..Len(merge_result.chapter_info) :
            chapters[k].chapter_id = merge_result.chapter_info[j].id =>
                OffsetMs(chapters[k]) = merge_result.chapter_info[j].start_ms

\* C3: a chapter that failed all its attempts has no audio file and is
\* absent from the later stages: no boundary in the master audiobook, no
\* entry (offset) in the composer queue, no cue in the master subtitle.
C3_FailedChapterAbsent ==
    pc = "done" =>
        \A i \in Chapters :
            outcome[i] = "failed" =>
                /\ audio_fs[NameOf(i)].state = "absent"
                /\ \A j \in 1..Len(merge_result.chapter_info) :
                      merge_result.chapter_info[j].id # IdOf(i)
                /\ \A k \in 1..Len(chapters) : chapters[k].chapter_id # IdOf(i)
                /\ LET cues == SplitBlocks(master_srt.lines)
                   IN  \A c \in 1..Len(cues) : \A l \in 3..Len(cues[c]) :
                           cues[c][l] # IdOf(i)

\* C4: every chapter is attempted at least once and at most MaxRetries
\* times, attempts stop at the first success, a chapter is counted failed
\* exactly when MaxRetries attempts failed, and nothing is attempted on a
\* chapter that succeeded or failed.
C4_RetryStateMachine ==
    /\ \A i \in 1..Len(attempts) :
          LET a == attempts[i]
          IN  /\ Len(a) <= MaxRetries
              /\ \A k \in 1..(Len(a) - 1) : a[k] = "err"
              /\ outcome[i] = "failed" <=> Errors(a) = MaxRetries
              /\ outcome[i] = "succeeded" <=> (a # <<>> /\ a[Len(a)] = "ok")
              /\ LoopOver => (Len(a) >= 1 /\ outcome[i] # "pending")
              /\ i < idx => (Len(a) >= 1 /\ outcome[i] # "pending")
    /\ failed = Cardinality({ i \in 1..Len(attempts) : Errors(attempts[i]) = MaxRetries })
    /\ processed = Cardinality({ i \in 1..Len(attempts) :
                                   attempts[i] # <<>> /\ attempts[i][Len(attempts[i])] = "ok" })

\* A finished batch with a chapter that failed three times and one that
\* succeeded at its second attempt.
C4_Witness ==
    /\ pc = "done"
    /\ \E i, j \in Chapters :
          /\ attempts[i] = <<"err", "err", "err">>
          /\ outcome[i] = "failed"
          /\ attempts[j] = <<"err", "ok">>
          /\ outcome[j] = "succeeded"

\* C5: the wait before the retry that follows failed attempt n (from 0) is
\* 2^n seconds, after a failure result as after an exception, and no wait
\* follows the last failed attempt: a chapter that fails for good waited 1 s
\* then 2 s.
C5_BackoffWaits ==
    /\ last.kind \in {"fail", "raise"} =>
          last.wait = (IF last.retry < MaxRetries - 1 THEN Pow2(last.retry) ELSE 0)
    /\ \A i \in 1..Len(sleeps) :
          /\ Len(sleeps[i]) = Min(Errors(attempts[i]), MaxRetries - 1)
          /\ \A n \in 1..Len(sleeps[i]) : sleeps[i][n] = Pow2(n - 1)
          /\ outcome[i] = "failed" => sleeps[i] = <<1, 2>>

\* A chapter given up after an exception at its last attempt, having waited
\* 1 s then 2 s, and another that waited once after a failure result.
C5_Witness ==
    /\ last.kind = "raise"
    /\ last.retry = MaxRetries - 1
    /\ last.wait = 0
    /\ outcome[last.chapter] = "failed"
    /\ sleeps[last.chapter] = <<1, 2>>
    /\ \E j \in Chapters : outcome[j] = "succeeded" /\ sleeps[j] = <<1>>

\* C6: a chapter's failure never ends the batch: the chapters are attempted
\* in selection order, a started batch reaches its final summary, and by
\* then every selected chapter has been attempted.
\* (Every step of the worker advances pc or the chapter, or appends to
\* order, so no run of it loops: a worker that is never stuck before "done"
\* and ends only through the summary reaches the summary.)
C6_BatchNeverAborted ==
    /\ \A k \in 1..(Len(order) - 1) : order[k] <= order[k + 1]
    /\ pc \notin {"idle", "done"} => ENABLED Next
    /\ pc \in {"finally", "done"} => summary.shown
    /\ summary.shown => { order[k] : k \in 1..Len(order) } = Chapters

\* A summary shown after the first chapter failed for good and a later one
\* was generated.
C6_Witness ==
    /\ summary.shown
    /\ Len(rows) >= 2
    /\ outcome[1] = "failed"
    /\ \E j \in Chapters : j > 1 /\ outcome[j] = "succeeded"

\* C7: the derived file names hold only alphanumerics, space, hyphen and
\* underscore, and two chapters of a batch that differ in id, title or part
\* never derive the same file name.
C7_FilenamesSafeAndDistinct ==
    \A i, j \in Chapters :
        /\ \A k \in 1..Len(NameOf(i)) : IsSafeChar(NameOf(i)[k])
        /\ ( \/ Table[rows[i]].id # Table[rows[j]].id
             \/ Table[rows[i]].title # Table[rows[j]].title
             \/ Table[rows[i]].part # Table[rows[j]].part )
           => NameOf(i) # NameOf(j)


\* The chapter loop and both merge stages are behind the worker.
StagesOver == pc \in {"summary", "finally", "done"}

\* C20 as stated: once all chapters are processed, the master subtitle
\* composition and the master audiobook merge are both invoked if a chapter
\* was generated, and neither is invoked if none was.
C20_MergeStagesInvoked ==
    StagesOver =>
        /\ processed > 0 => (compose_ok # "none" /\ merge_called)
        /\ processed = 0 => (compose_ok = "none" /\ ~merge_called)

\* C20, amended: neither stage is invoked before the chapter loop is over;
\* once it is over, the master subtitle composition is invoked exactly when
\* a chapter was generated, and the master audiobook merge exactly when a
\* chapter was generated and the create-master option is set (the merge
\* then tags the file it exports).
C20_MergeStagesWhenOptionSet ==
    /\ (compose_ok # "none" \/ merge_called) => LoopOver
    /\ merge_called => compose_ok # "none"
    /\ pc \in {"merge", "summary", "finally", "done"} =>
          (compose_ok # "none" <=> processed > 0)
    /\ StagesOver => (merge_called <=> (processed > 0 /\ create_master))
    /\ (StagesOver /\ merge_called /\ merge_result.success) =>
          Len(master_mp3.tags.chap) = Len(merge_result.chapter_info)

\* A batch with a failed and a generated chapter whose two merge stages both
\* ran: master subtitle composed, master audiobook merged and tagged.
C20_Witness ==
    /\ pc = "done"
    /\ failed > 0
    /\ processed > 0
    /\ create_master
    /\ compose_ok = "true"
    /\ merge_called
    /\ merge_result.success
    /\ master_mp3.tags.ctoc # <<>>

\* C22: the progress value i/N of chapter i is shown only once chapter i has
\* been generated or given up, never while its generation is still to end.
C22_ProgressAfterChapter ==
    \A i \in Chapters :
        (i <= Len(outcome) /\ progress = <<i, total>>) => outcome[i] # "pending"

CountOf(kind) == Cardinality({ i \in 1..Len(outcome) : outcome[i] = kind })

\* C26: each chapter is counted exactly once: while chapter k is handled
\* processed + failed = k - 1, once it has been handled processed + failed
\* = k, the counts are the numbers of chapters generated and given up, and
\* the final summary's counts add up to the total.
C26_EachChapterCountedOnce ==
    /\ pc \in {"chapter", "attempt"} => processed + failed = idx - 1
    /\ pc = "stats" => processed + failed = idx
    /\ pc \in {"chapter", "attempt", "stats"} \cup {"compose", "merge", "summary"} =>
          /\ processed = CountOf("succeeded")
          /\ failed = CountOf("failed")
    /\ (pc = "chapter" /\ idx > 1) => stats = <<total, processed, failed>>
    /\ LoopOver /\ pc # "done" /\ pc # "finally" => processed + failed = total
    /\ summary.shown =>
          /\ summary.total = total
          /\ summary.processed + summary.failed = summary.total
          /\ summary.processed = CountOf("succeeded")
          /\ summary.failed = CountOf("failed")

\* A summary over three chapters: one generated at once, one generated at
\* the second call, one given up after three calls.
C26_Witness ==
    /\ summary.shown
    /\ total = 3
    /\ \E i, j, k \in Chapters :
          /\ attempts[i] = <<"ok">>
          /\ attempts[j] = <<"err", "ok">>
          /\ attempts[k] = <<"err", "err", "err">>
          /\ outcome[k] = "failed"
    /\ summary.processed = 2
    /\ summary.failed = 1

\* C27: the final summary announces master_audiobook.mp3 only if
\* merge_audiobook was called and returned success.
C27_AnnouncedOnlyIfMerged ==
    (summary.shown /\ summary.master_announced) =>
        (merge_called /\ merge_result.success)

\* A step taken from a merge stage changes neither the counts nor the
\* per-chapter files and leads to the next stage or the summary.
StageStepLocal ==
    pc \in {"compose", "merge"} =>
        /\ processed' = processed
        /\ failed' = failed
        /\ audio_fs' = audio_fs
        /\ sub_fs' = sub_fs
        /\ pc' = IF pc = "compose" THEN "merge" ELSE "summary"

\* C25: a merge stage that fails is fatal to that stage only: a step of
\* either stage leaves the counts and every per-chapter audio and subtitle
\* file as they were and is followed by the next stage or the summary, and
\* the summary reports the counts of the chapters generated and given up.
C25_StageFailureLocal ==
    /\ [][StageStepLocal]_vars
    /\ [](pc \in {"finally", "done"} =>
            /\ summary.shown
            /\ summary.processed = CountOf("succeeded")
            /\ summary.failed = CountOf("failed")
            /\ summary.total = total)

\* A finished batch whose master subtitle could not be composed and whose
\* audio merge failed: the summary still reports one chapter generated and
\* one given up, and the generated chapter's files are on disk.
C25_Witness ==
    /\ pc = "done"
    /\ compose_ok = "false"
    /\ merge_called
    /\ ~merge_result.success
    /\ summary.shown
    /\ summary.processed = 1
    /\ summary.failed = 1
    /\ \E i \in Chapters :
          /\ outcome[i] = "succeeded"
          /\ audio_fs[NameOf(i)].state = "ok"
          /\ sub_fs[NameOf(i)].state = "ok"

\* The chapter results queued in the composer: path, id and duration of each
\* entry, in order (the offset is what the composer computes from them).
QueueOf(chs) ==
    [i \in 1..Len(chs) |-> <<chs[i].subtitle_path, chs[i].chapter_id, chs[i].duration>>]

\* A merge stage is about to run, runs or has run.
StageStarted == pc \in {"compose", "merge"} \/ compose_ok # "none" \/ merge_called

\* A step taken from a merge stage leaves the selected rows and the queued
\* chapter results as they are.
StageStepKeepsResults ==
    pc \in {"compose", "merge"} =>
        /\ rows' = rows
        /\ outcome' = outcome
        /\ QueueOf(chapters') = QueueOf(chapters)

\* C24: no merge stage starts before every selected chapter has been
\* generated or given up; the queue the composer consumes then holds exactly
\* the generated chapters, and no step of a merge stage changes the selected
\* rows or the queued chapter results.
C24_PipelineBarrier ==
    /\ [](StageStarted =>
            /\ \A i \in Chapters : outcome[i] # "pending"
            /\ Len(chapters) = CountOf("succeeded")
            /\ idx = total)
    /\ [][StageStepKeepsResults]_vars

\* Both merge stages have run over a batch of three chapters, two of them
\* generated and queued, one given up.
C24_Witness ==
    /\ pc = "summary"
    /\ total = 3
    /\ CountOf("succeeded") = 2
    /\ CountOf("failed") = 1
    /\ Len(chapters) = 2
    /\ compose_ok = "true"
    /\ merge_called

\* ---------------------------------------------------- claims: the session
\* A worker thread exists.
WorkerRuns == pc \notin {"idle", "done", "exited"}

\* While a batch is processing no step starts a worker or changes the rows
\* or the option the running worker was given.
NoStartWhileProcessing ==
    is_processing =>
        /\ batches' = batches
        /\ rows' = rows
        /\ create_master' = create_master
        /\ (pc' = "begin" => pc = "begin")

\* C21: a worker is started only when none exists, a start request while a
\* batch is processing changes nothing of the batch, and the worker's
\* generation call is never in flight together with another generation call
\* to the provider (the preview's).
C21_OneGenerationAtATime ==
    /\ [](WorkerRuns => is_processing)
    /\ [][NoStartWhileProcessing]_vars
    /\ [](~(pc = "attempt" /\ preview_pc = "generating"))

\* A step that ends the worker from outside leaves it no generation call in
\* flight: it comes between two chapters, or when no chapter is being
\* generated.
EndedBetweenChapters == (pc' = "exited" /\ WorkerRuns) => pc # "attempt"

\* C23: stopping a running batch is cooperative: the worker is ended only at
\* a point between chapters, never while a generation call is in flight.
C23_CooperativeCancellation == [][EndedBetweenChapters]_vars

\* C28: is_processing is set exactly while a worker runs; a started batch
\* ends, with the flag reset, whether _batch_process returns or raises; and
\* once it has ended the next batch can be started.
C28_BatchEndsAndFlagResets ==
    /\ [](WorkerRuns <=> is_processing)
    /\ (is_processing ~> (pc = "done" /\ ~is_processing))
    /\ []((pc = "done" /\ batches < MaxBatches) => ENABLED StartBatch)

\* A second batch has been started after the first was ended by an exception
\* raised before its chapter loop.
C28_Witness ==
    /\ batches = 2
    /\ pc = "begin"
    /\ is_processing
    /\ outcome = <<>>

\* ------------------------------------------- claims: one batch after another
\* The chapter loop of the current batch has been entered: the histories are
\* those of this batch.
ThisBatchBegun ==
    \/ pc \in {"chapter", "attempt", "stats", "compose", "merge", "summary"}
    \/ pc \in {"finally", "done"} /\ summary.shown

\* What the composer's queue is to hold: the chapters of this batch that
\* succeeded so far, in order.
RECURSIVE SucceededFrom(_)
SucceededFrom(i) ==
    IF i > Len(outcome) THEN <<>>
    ELSE (IF outcome[i] = "succeeded"
          THEN << <<NameOf(i), IdOf(i), EstimatedDuration(Table[rows[i]])>> >>
          ELSE <<>>)
         \o SucceededFrom(i + 1)

\* The ids of the chapters of this batch that succeeded.
SucceededIds == { IdOf(i) : i \in { c \in Chapters : outcome[c] = "succeeded" } }

\* C29: from the start of a batch's chapter loop on the composer's queue holds
\* the chapters of this batch that succeeded, in order, and nothing of an
\* earlier batch; once the master subtitle of the batch is composed the
\* offsets are the running sums from 0, every text line of the master is of a
\* chapter of this batch that succeeded, and composing once more over the same
\* queue gives the same offsets and the same master.
C29_MasterOfThisBatchOnly ==
    ThisBatchBegun =>
        /\ QueueOf(chapters) = SucceededFrom(1)
        /\ compose_ok = "true" =>
              /\ chapters = CalculateOffsets(chapters)
              /\ \A c \in 1..Len(MasterCues) : \A l \in 3..Len(MasterCues[c]) :
                    MasterCues[c][l] \in SucceededIds
              /\ Len(MasterCues) = Len(chapters)
              /\ ComposeMasterSubtitle(chapters, sub_fs, master_srt, TRUE)
                    = [ok |-> TRUE, chapters |-> chapters, master |-> master_srt]

\* A second batch has composed its master subtitle (of one chapter or more)
\* while the subtitle file of a chapter only an earlier batch generated is
\* still on disk.
C29_Witness ==
    /\ batches = 2
    /\ pc = "done"
    /\ compose_ok = "true"
    /\ Len(chapters) > 0
    /\ \E n \in DOMAIN sub_fs :
          /\ sub_fs[n].state # "absent"
          /\ \A i \in Chapters : NameOf(i) # n

\* ---------------------------------------------------- claims: AudioPlayer
\* The monitor threads started and not ended.
ActiveMonitors == { t \in Playbacks : monitor[t] \notin {"none", "exited"} }

\* C30: whatever the interleaving of the load, play, pause and stop calls
\* with the monitor threads, at most one monitor thread is active, the
\* on-finish callback is called at most once for a playback, and only for a
\* playback that reached its end, never for one that stop() ended.
C30_OneMonitorOneCallback ==
    /\ Cardinality(ActiveMonitors) <= 1
    /\ \A p \in Playbacks : callbacks[p] <= 1
    /\ \A p \in Playbacks : callbacks[p] > 0 => ended[p] = "natural"

=============================================================================
